---- MODULE Spec2Model ----
(***************************************************************************)
(* Model of seedarr's series pipeline (src/src/app/sonarr.rs): one run of   *)
(* the body of run_sonarr_pipeline's per-series loop.  The episode and file *)
(* records returned by the Sonarr client are the inputs; the state is the   *)
(* maps and sets the loop body builds and the list of scene-name synthesis  *)
(* calls (propose_pack_scene_name / propose_episode_scene_name) it makes.   *)
(***************************************************************************)
EXTENDS Integers, Sequences, FiniteSets, TLC

VARIABLES
    pc,                     \* position in the loop body of run_sonarr_pipeline
    config,                 \* the configuration fields the pipeline reads
    episodes,               \* response of client.list_episodes
    episode_files,          \* response of client.list_episode_files
    episode_by_id,          \* HashMap<i64, EpisodeResource>
    episodes_by_season,     \* HashMap<u16, Vec<i64>>
    season_to_files,        \* HashMap<u16, Vec<EpisodeFileResource>>
    all_mapped_files,       \* Vec<EpisodeFileResource>
    unmapped_episode_files, \* usize
    complete_seasons,       \* BTreeSet<u16>
    incomplete_seasons,     \* BTreeSet<u16>
    series_complete,        \* bool
    pack_seasons,           \* BTreeSet<u16>
    calls,                  \* the synthesis calls made so far, in order
    request,                \* the Name Builder call under way: kind, original, hints, probe
    decision,               \* the SceneDecision it returned, if it has
    previous,               \* the call before it and its decision, if any
    final_scene_name,       \* the name a unit is emitted under, once synthesized
    effects                 \* the export, torrent and upload steps attempted, in order

vars == <<pc, config, episodes, episode_files, episode_by_id, episodes_by_season,
          season_to_files, all_mapped_files, unmapped_episode_files,
          complete_seasons, incomplete_seasons, series_complete, pack_seasons, calls,
          request, decision, previous, final_scene_name, effects>>

----------------------------------------------------------------------------
(* Bounds of the model *)

MaxEpisodes == 2
MaxFiles == 2
MaxSeason == 2
MaxLanguages == 2
MaxNumbers == 2
MaxText == 3

(* Program constants *)

U16Max == 65535

----------------------------------------------------------------------------
(* Option<T>: None is the empty tuple, Some(x) the one-element tuple *)

None == <<>>
Some(x) == <<x>>
IsSome(o) == o /= <<>>
Unwrap(o) == o[1]

(* u16::try_from(n).ok() on an i32 *)
U16TryFrom(n) == IF n >= 0 /\ n <= U16Max THEN Some(n) ELSE None

(* The elements of a BTreeSet<u16> in iteration (ascending) order *)
RECURSIVE Ascending(_)
Ascending(S) ==
    IF S = {} THEN <<>>
    ELSE LET m == CHOOSE x \in S : \A y \in S : x <= y
         IN <<m>> \o Ascending(S \ {m})

SeqsUpTo(D, n) == UNION {[1..k -> D] : k \in 0..n}

Range(s) == {s[i] : i \in DOMAIN s}

----------------------------------------------------------------------------
(* Path translation (strings are tuples of one-character strings) *)

RECURSIVE TrimEndMatches(_, _)
TrimEndMatches(s, c) ==
    IF Len(s) > 0 /\ s[Len(s)] = c THEN TrimEndMatches(SubSeq(s, 1, Len(s) - 1), c)
    ELSE s

StartsWith(s, p) == Len(p) <= Len(s) /\ SubSeq(s, 1, Len(p)) = p

(* The loop of translate_sonarr_path: index of the best mapping so far, 0 for none *)
RECURSIVE BestMapping(_, _, _, _)
BestMapping(sonarr_path, mappings, i, best) ==
    IF i > Len(mappings) THEN best
    ELSE LET rr == TrimEndMatches(mappings[i].sonarr_root, "/")
             take == /\ StartsWith(sonarr_path, rr)
                     /\ \/ best = 0
                        \/ Len(rr) > Len(TrimEndMatches(mappings[best].sonarr_root, "/"))
         IN BestMapping(sonarr_path, mappings, i + 1, IF take THEN i ELSE best)

(* translate_sonarr_path that falls back to the Sonarr path when no mapping matches *)
translate_sonarr_path_lenient(sonarr_path, mappings) ==
    LET best == BestMapping(sonarr_path, mappings, 1, 0)
    IN IF best = 0 THEN Some(sonarr_path)
       ELSE LET rr == TrimEndMatches(mappings[best].sonarr_root, "/")
                suffix == SubSeq(sonarr_path, Len(rr) + 1, Len(sonarr_path))
            IN Some(TrimEndMatches(mappings[best].local_root, "/") \o suffix)

translate_sonarr_path(sonarr_path, mappings) ==
    LET best == BestMapping(sonarr_path, mappings, 1, 0)
    IN IF best = 0 THEN None
       ELSE LET rr == TrimEndMatches(mappings[best].sonarr_root, "/")
                suffix == SubSeq(sonarr_path, Len(rr) + 1, Len(sonarr_path))
            IN Some(TrimEndMatches(mappings[best].local_root, "/") \o suffix)

try_translate_sonarr_path(sonarr_path, mappings) ==
    IF mappings = <<>> THEN None
    ELSE translate_sonarr_path(sonarr_path, mappings)

(* sonarr.path_mappings of the configuration under test: the second root lies
   inside the first, so the longest-prefix rule decides *)
PathMappings ==
    << [sonarr_root |-> <<"/", "t", "/">>, local_root |-> <<"/", "m", "/">>],
       [sonarr_root |-> <<"/", "t", "/", "b">>, local_root |-> <<"/", "n">>] >>

(* Sonarr paths: two that a mapping matches, one that none matches *)
PathA == <<"/", "t", "/", "a">>
PathB == <<"/", "t", "/", "b">>
PathU == <<"/", "u", "/", "a">>
FilePaths == {PathA, PathB, PathU}

(* try_translate_sonarr_path over the paths and mappings of the model, computed once *)
TranslationTable ==
    [m \in {PathMappings} |-> [p \in FilePaths |-> try_translate_sonarr_path(p, m)]]

translate_episode_path(epf, cfg) == TranslationTable[cfg.path_mappings][epf.path]

----------------------------------------------------------------------------
(* Indexing the episodes: sonarr.rs lines 44-60 *)

RECURSIVE IndexEpisodesLoop(_, _, _, _)
IndexEpisodesLoop(eps, i, by_id, by_season) ==
    IF i > Len(eps) THEN [by_id |-> by_id, by_season |-> by_season]
    ELSE LET ep == eps[i]
             season_u == U16TryFrom(ep.season_number)
             by_id2 == (ep.id :> ep) @@ by_id
         IN IF ep.season_number <= 0 \/ ~IsSome(season_u)
            THEN IndexEpisodesLoop(eps, i + 1, by_id2, by_season)
            ELSE LET s == Unwrap(season_u)
                     old == IF s \in DOMAIN by_season THEN by_season[s] ELSE <<>>
                 IN IndexEpisodesLoop(eps, i + 1, by_id2,
                                      (s :> Append(old, ep.id)) @@ by_season)

----------------------------------------------------------------------------
(* Mapping the files to seasons: sonarr.rs lines 70-114 *)

(* seasons_in_file after the explicit field (lines 88-94) *)
ExplicitSeasons(epf) ==
    IF IsSome(epf.season_number)
       /\ Unwrap(epf.season_number) > 0
       /\ IsSome(U16TryFrom(Unwrap(epf.season_number)))
    THEN {Unwrap(U16TryFrom(Unwrap(epf.season_number)))}
    ELSE {}

(* the seasons added from episodeIds (lines 97-105) *)
EpisodeSeasons(epf, by_id) ==
    {Unwrap(U16TryFrom(by_id[eid].season_number)) :
        eid \in {e \in Range(epf.episode_ids) :
                    /\ e \in DOMAIN by_id
                    /\ by_id[e].season_number > 0
                    /\ IsSome(U16TryFrom(by_id[e].season_number))}}

SeasonsInFile(epf, by_id) == ExplicitSeasons(epf) \cup EpisodeSeasons(epf, by_id)

(* MapFilesLoop that keeps a file only when it belongs to exactly one season *)
RECURSIVE MapFilesLoopOneSeasonOnly(_, _, _, _, _, _, _)
MapFilesLoopOneSeasonOnly(files, i, cfg, by_id, s2f, mapped, unmapped) ==
    IF i > Len(files) THEN [s2f |-> s2f, mapped |-> mapped, unmapped |-> unmapped]
    ELSE LET epf == files[i]
         IN IF ~IsSome(translate_episode_path(epf, cfg))
            THEN MapFilesLoopOneSeasonOnly(files, i + 1, cfg, by_id, s2f, mapped, unmapped + 1)
            ELSE LET seasons_in_file == SeasonsInFile(epf, by_id)
                 IN IF Cardinality(seasons_in_file) = 1
                    THEN LET season == CHOOSE s \in seasons_in_file : TRUE
                             old == IF season \in DOMAIN s2f THEN s2f[season] ELSE <<>>
                         IN MapFilesLoopOneSeasonOnly(files, i + 1, cfg, by_id,
                                (season :> Append(old, epf)) @@ s2f,
                                Append(mapped, epf), unmapped)
                    ELSE MapFilesLoopOneSeasonOnly(files, i + 1, cfg, by_id, s2f, mapped,
                                                   unmapped)

RECURSIVE MapFilesLoop(_, _, _, _, _, _, _)
MapFilesLoop(files, i, cfg, by_id, s2f, mapped, unmapped) ==
    IF i > Len(files) THEN [s2f |-> s2f, mapped |-> mapped, unmapped |-> unmapped]
    ELSE LET epf == files[i]
         IN IF ~IsSome(translate_episode_path(epf, cfg))
            THEN MapFilesLoop(files, i + 1, cfg, by_id, s2f, mapped, unmapped + 1)
            ELSE LET seasons_in_file == SeasonsInFile(epf, by_id)
                     s2f2 == IF Cardinality(seasons_in_file) = 1
                             THEN LET season == CHOOSE s \in seasons_in_file : TRUE
                                      old == IF season \in DOMAIN s2f THEN s2f[season] ELSE <<>>
                                  IN (season :> Append(old, epf)) @@ s2f
                             ELSE s2f
                 IN MapFilesLoop(files, i + 1, cfg, by_id, s2f2, Append(mapped, epf), unmapped)

----------------------------------------------------------------------------
(* Season completeness: sonarr.rs lines 124-169 *)

(* IsComplete that forgets the unmonitored episodes *)
IsCompleteHasFileOnly(ep_ids, by_id) ==
    \A i \in DOMAIN ep_ids :
        IF ep_ids[i] \in DOMAIN by_id THEN by_id[ep_ids[i]].has_file ELSE FALSE

IsComplete(ep_ids, by_id) ==
    \A i \in DOMAIN ep_ids :
        IF ep_ids[i] \in DOMAIN by_id
        THEN ~by_id[ep_ids[i]].monitored \/ by_id[ep_ids[i]].has_file
        ELSE FALSE

CompleteSeasons(by_season, by_id) ==
    {s \in DOMAIN by_season : by_season[s] /= <<>> /\ IsComplete(by_season[s], by_id)}

IncompleteSeasons(by_season, by_id) ==
    {s \in DOMAIN by_season : by_season[s] /= <<>> /\ ~IsComplete(by_season[s], by_id)}

(* SeriesComplete without the test for at least one season *)
SeriesCompleteNoSeasonTest(incomplete, by_season) == incomplete = {}

SeriesComplete(incomplete, by_season) == incomplete = {} /\ DOMAIN by_season /= {}

(* PackSeasons that ignores only_complete_seasons *)
PackSeasonsAll(cfg, complete, incomplete) == complete \cup incomplete

PackSeasons(cfg, complete, incomplete) ==
    IF cfg.only_complete_seasons THEN complete ELSE complete \cup incomplete

----------------------------------------------------------------------------
(* Pack aggregation: create_season_pack lines 284-325, create_integrale_pack 390-431 *)

UniquePaths(files, cfg) ==
    {Unwrap(translate_episode_path(files[i], cfg)) :
        i \in {j \in DOMAIN files : IsSome(translate_episode_path(files[j], cfg))}}

(* the normal components of an absolute path (std::path::Path::components) *)
RECURSIVE Components(_, _, _)
Components(path, i, cur) ==
    IF i > Len(path) THEN (IF cur = <<>> THEN <<>> ELSE <<cur>>)
    ELSE IF path[i] = "/"
         THEN (IF cur = <<>> THEN <<>> ELSE <<cur>>) \o Components(path, i + 1, <<>>)
         ELSE Components(path, i + 1, Append(cur, path[i]))

(* the byte of each character the paths of the model are made of *)
CharCode == [c \in {"/", "a", "b", "m", "n", "t", "u"} |->
                CASE c = "/" -> 47 [] c = "a" -> 97 [] c = "b" -> 98 [] c = "m" -> 109
                  [] c = "n" -> 110 [] c = "t" -> 116 [] c = "u" -> 117]

(* byte-wise lexicographic order of two components *)
ComponentLess(a, b) ==
    \E k \in 1..(Len(a) + 1) :
        /\ k <= Len(b)
        /\ \A j \in 1..(k - 1) : a[j] = b[j]
        /\ (k = Len(a) + 1 \/ CharCode[a[k]] < CharCode[b[k]])

(* Ord of PathBuf: lexicographic over the components *)
PathLess(p, q) ==
    LET a == Components(p, 1, <<>>)
        b == Components(q, 1, <<>>)
    IN \E k \in 1..(Len(a) + 1) :
           /\ k <= Len(b)
           /\ \A j \in 1..(k - 1) : a[j] = b[j]
           /\ (k = Len(a) + 1 \/ ComponentLess(a[k], b[k]))

(* the local paths the files of the model can resolve to, and the position of
   each in the order of PathBuf, computed once *)
LocalPaths ==
    {Unwrap(TranslationTable[PathMappings][p]) :
        p \in {q \in FilePaths : IsSome(TranslationTable[PathMappings][q])}}

PathRank == [p \in LocalPaths |-> Cardinality({q \in LocalPaths : PathLess(q, p)})]

(* unique_paths.into_iter().collect(): the elements of a BTreeSet in ascending order *)
RECURSIVE SrcVideos(_)
SrcVideos(unique_paths) ==
    IF unique_paths = {} THEN <<>>
    ELSE LET least == CHOOSE p \in unique_paths :
                          \A q \in unique_paths : PathRank[p] <= PathRank[q]
         IN <<least>> \o SrcVideos(unique_paths \ {least})

(* extract_sonarr_quality_name of the files that have one, in the order of the files *)
RECURSIVE Qualities(_, _)
Qualities(files, i) ==
    IF i > Len(files) THEN <<>>
    ELSE (IF IsSome(files[i].quality) THEN <<Unwrap(files[i].quality)>> ELSE <<>>)
         \o Qualities(files, i + 1)

(* PackQuality that looks at the first file only *)
PackQualityFirstFile(files) == files[1].quality

(* qualities.into_iter().next() *)
PackQuality(files) ==
    LET qualities == Qualities(files, 1)
    IN IF qualities = <<>> THEN None ELSE Some(qualities[1])

ReleaseGroups(files) ==
    {Unwrap(files[i].release_group) :
        i \in {j \in DOMAIN files : IsSome(files[j].release_group)}}

PackReleaseGroup(files) ==
    LET release_groups == ReleaseGroups(files)
    IN IF Cardinality(release_groups) = 1
       THEN Some(CHOOSE g \in release_groups : TRUE)
       ELSE None

(* The synthesis call a pack makes, as a list of zero or one call *)
PackCall(kind, season, pack_tag, files, cfg) ==
    IF ~cfg.seed_path_set THEN <<>>
    ELSE IF UniquePaths(files, cfg) = {} THEN <<>>
    ELSE << [kind |-> kind,
             for_season |-> season,
             pack_tag |-> pack_tag,
             files |-> files,
             src_videos |-> SrcVideos(UniquePaths(files, cfg)),
             tech_path |-> SrcVideos(UniquePaths(files, cfg))[1],
             quality |-> PackQuality(files),
             release_group |-> PackReleaseGroup(files)] >>

create_season_pack(season, files, cfg) ==
    PackCall("season_pack", Some(season), <<"S", season>>, files, cfg)

create_integrale_pack(files, cfg) ==
    PackCall("integrale", None, <<"INTEGRALE">>, files, cfg)

(* process_episode_file up to its synthesis call: lines 577-643 *)
process_episode_file(season, epf, cfg) ==
    IF epf.episode_ids = <<>> THEN <<>>
    ELSE IF ~IsSome(translate_episode_path(epf, cfg)) THEN <<>>
    ELSE << [kind |-> "episode",
             for_season |-> Some(season),
             pack_tag |-> <<>>,
             files |-> <<epf>>,
             src_videos |-> <<Unwrap(translate_episode_path(epf, cfg))>>,
             tech_path |-> Unwrap(translate_episode_path(epf, cfg)),
             quality |-> epf.quality,
             release_group |-> epf.release_group] >>

(* lines 179-204 *)
RECURSIVE SeasonPackLoop(_, _, _, _)
SeasonPackLoop(seasons, i, s2f, cfg) ==
    IF i > Len(seasons) THEN <<>>
    ELSE (IF seasons[i] \in DOMAIN s2f
          THEN create_season_pack(seasons[i], s2f[seasons[i]], cfg)
          ELSE <<>>)
         \o SeasonPackLoop(seasons, i + 1, s2f, cfg)

(* EpisodeFilesLoop without the deduplication by path *)
RECURSIVE EpisodeFilesLoopNoDedup(_, _, _, _, _)
EpisodeFilesLoopNoDedup(season, files, i, seen_paths, cfg) ==
    IF i > Len(files) THEN <<>>
    ELSE process_episode_file(season, files[i], cfg)
         \o EpisodeFilesLoopNoDedup(season, files, i + 1, seen_paths, cfg)

(* lines 232-257: the files of one season, deduplicated by path *)
RECURSIVE EpisodeFilesLoop(_, _, _, _, _)
EpisodeFilesLoop(season, files, i, seen_paths, cfg) ==
    IF i > Len(files) THEN <<>>
    ELSE IF files[i].path \in seen_paths
         THEN EpisodeFilesLoop(season, files, i + 1, seen_paths, cfg)
         ELSE process_episode_file(season, files[i], cfg)
              \o EpisodeFilesLoop(season, files, i + 1, seen_paths \cup {files[i].path}, cfg)

(* PerEpisodeLoop without the skip of the seasons that got a pack *)
RECURSIVE PerEpisodeLoopNoSkip(_, _, _, _, _)
PerEpisodeLoopNoSkip(seasons, i, packs, s2f, cfg) ==
    IF i > Len(seasons) THEN <<>>
    ELSE (IF seasons[i] \in DOMAIN s2f
          THEN EpisodeFilesLoop(seasons[i], s2f[seasons[i]], 1, {}, cfg)
          ELSE <<>>)
         \o PerEpisodeLoopNoSkip(seasons, i + 1, packs, s2f, cfg)

(* lines 227-258 *)
RECURSIVE PerEpisodeLoop(_, _, _, _, _)
PerEpisodeLoop(seasons, i, packs, s2f, cfg) ==
    IF i > Len(seasons) THEN <<>>
    ELSE (IF seasons[i] \in packs THEN <<>>
          ELSE IF seasons[i] \in DOMAIN s2f
               THEN EpisodeFilesLoop(seasons[i], s2f[seasons[i]], 1, {}, cfg)
               ELSE <<>>)
         \o PerEpisodeLoop(seasons, i + 1, packs, s2f, cfg)

----------------------------------------------------------------------------
(* Characters and strings of the naming code (src/src/core/naming): a string
   is a tuple of characters, a character a one-letter string; the characters
   outside ASCII and the control characters carry a name between < and > *)

DigitChars == <<"0", "1", "2", "3", "4", "5", "6", "7", "8", "9">>
UpperChars == <<"A", "B", "C", "D", "E", "F", "G", "H", "I", "J", "K", "L", "M",
                "N", "O", "P", "Q", "R", "S", "T", "U", "V", "W", "X", "Y", "Z">>
LowerChars == <<"a", "b", "c", "d", "e", "f", "g", "h", "i", "j", "k", "l", "m",
                "n", "o", "p", "q", "r", "s", "t", "u", "v", "w", "x", "y", "z">>

IndexIn(chars, c) == CHOOSE i \in DOMAIN chars : chars[i] = c

(* char::is_ascii_alphanumeric *)
IsAsciiAlphanumeric(c) ==
    c \in Range(DigitChars) \cup Range(UpperChars) \cup Range(LowerChars)

(* char::is_alphanumeric: the letters and digits of any script; the Hangul
   jamo U+1100 and U+1161 and the syllable U+AC00 are letters *)
IsAlphanumeric(c) ==
    IsAsciiAlphanumeric(c) \/ c \in {"<e-acute>", "<A-grave>", "<jamo-g>", "<jamo-a>", "<hangul-ga>"}

(* char::is_control *)
IsControl(c) == c \in {"<tab>", "<newline>"}

(* the symbols normalize_tokens_to_scene drops (builder.rs line 19) *)
IsDropSymbol(c) == c \in {"<copyright>", "<registered>", "<trademark>", "<sound-recording>"}

(* BLACKLIST of sanitize_scene_name (builder.rs line 513) *)
BLACKLIST ==
    {"<copyright>", "<registered>", "<trademark>", "<sound-recording>", "<section>",
     "<pilcrow>", "<bullet>", "<dagger>", "<double-dagger>", "<degree>",
     "<masculine-ordinal>", "<feminine-ordinal>"}

(* char::to_ascii_lowercase and char::to_ascii_uppercase *)
ToAsciiLowercaseChar(c) ==
    IF c \in Range(UpperChars) THEN LowerChars[IndexIn(UpperChars, c)] ELSE c

ToAsciiUppercaseChar(c) ==
    IF c \in Range(LowerChars) THEN UpperChars[IndexIn(LowerChars, c)] ELSE c

(* str::to_ascii_lowercase and str::to_ascii_uppercase *)
ToAsciiLowercase(s) == [i \in DOMAIN s |-> ToAsciiLowercaseChar(s[i])]

ToAsciiUppercase(s) == [i \in DOMAIN s |-> ToAsciiUppercaseChar(s[i])]

(* str::contains *)
Contains(s, pat) ==
    \E i \in 0..(Len(s) - Len(pat)) : \A j \in DOMAIN pat : s[i + j] = pat[j]

(* the code point of a character: the order of String is the order of the
   UTF-8 bytes, which is the order of the code points *)
CodePoint(c) ==
    IF c \in Range(DigitChars) THEN 47 + IndexIn(DigitChars, c)
    ELSE IF c \in Range(UpperChars) THEN 64 + IndexIn(UpperChars, c)
    ELSE IF c \in Range(LowerChars) THEN 96 + IndexIn(LowerChars, c)
    ELSE CASE c = " " -> 32 [] c = "-" -> 45 [] c = "." -> 46 [] c = "/" -> 47
           [] c = "!" -> 33 [] c = "<tab>" -> 9 [] c = "<newline>" -> 10
           [] c = "<copyright>" -> 169 [] c = "<degree>" -> 176
           [] c = "<A-grave>" -> 192 [] c = "<e-acute>" -> 233
           [] c = "<combining-acute>" -> 769

(* Ord of String *)
StringLess(a, b) ==
    \E k \in 1..(Len(a) + 1) :
        /\ k <= Len(b)
        /\ \A j \in 1..(k - 1) : a[j] = b[j]
        /\ (k = Len(a) + 1 \/ CodePoint(a[k]) < CodePoint(b[k]))

(* the elements of a BTreeSet<String> in iteration (ascending) order *)
RECURSIVE AscendingStrings(_)
AscendingStrings(set) ==
    IF set = {} THEN <<>>
    ELSE LET least == CHOOSE a \in set : \A b \in set : a = b \/ StringLess(a, b)
         IN <<least>> \o AscendingStrings(set \ {least})

(* [String]::join *)
RECURSIVE Join(_, _)
Join(strings, sep) ==
    IF strings = <<>> THEN <<>>
    ELSE IF Len(strings) = 1 THEN strings[1]
    ELSE strings[1] \o sep \o Join(Tail(strings), sep)

(* str::split on one character: n separators give n + 1 pieces *)
RECURSIVE Split(_, _, _, _)
Split(s, sep, i, cur) ==
    IF i > Len(s) THEN <<cur>>
    ELSE IF s[i] = sep THEN <<cur>> \o Split(s, sep, i + 1, <<>>)
    ELSE Split(s, sep, i + 1, Append(cur, s[i]))

(* the decimal digits of a number, as to_string writes them *)
RECURSIVE ToDigits(_)
ToDigits(n) ==
    IF n < 10 THEN <<DigitChars[n + 1]>>
    ELSE ToDigits(n \div 10) \o <<DigitChars[(n % 10) + 1]>>

(* format!("{:0w$}", n): zero-padded to at least w digits *)
RECURSIVE ZeroPad(_, _)
ZeroPad(digits, w) ==
    IF Len(digits) >= w THEN digits ELSE ZeroPad(<<"0">> \o digits, w)

FormatPadded(n, w) == ZeroPad(ToDigits(n), w)

----------------------------------------------------------------------------
(* The Name Builder: src/src/core/naming/builder.rs *)

(* Unicode NFC over the characters of the model: a letter e followed by a
   combining acute accent composes to one character, and so does the leading
   jamo U+1100 followed by the vowel jamo U+1161 (the syllable U+AC00); a
   character in between blocks the composition *)
RECURSIVE Nfc(_)
Nfc(s) ==
    IF Len(s) < 2 THEN s
    ELSE IF s[1] = "e" /\ s[2] = "<combining-acute>"
         THEN <<"<e-acute>">> \o Nfc(SubSeq(s, 3, Len(s)))
         ELSE IF s[1] = "<jamo-g>" /\ s[2] = "<jamo-a>"
              THEN <<"<hangul-ga>">> \o Nfc(SubSeq(s, 3, Len(s)))
              ELSE <<s[1]>> \o Nfc(Tail(s))

(* str::trim_matches('.') *)
RECURSIVE TrimMatchesDot(_)
TrimMatchesDot(s) ==
    IF s = <<>> THEN s
    ELSE IF s[1] = "." THEN TrimMatchesDot(Tail(s))
    ELSE IF s[Len(s)] = "." THEN TrimMatchesDot(SubSeq(s, 1, Len(s) - 1))
    ELSE s

(* the loop of normalize_tokens_to_scene, lines 13-36 *)
RECURSIVE NormalizeLoop(_, _, _, _)
NormalizeLoop(normalized, i, out, last_dot) ==
    IF i > Len(normalized) THEN out
    ELSE LET ch == normalized[i]
         IN IF IsAlphanumeric(ch)
            THEN NormalizeLoop(normalized, i + 1, Append(out, ch), FALSE)
            ELSE IF IsDropSymbol(ch) \/ IsControl(ch)
                 THEN NormalizeLoop(normalized, i + 1, out, last_dot)
                 ELSE IF ~last_dot
                      THEN NormalizeLoop(normalized, i + 1, Append(out, "."), TRUE)
                      ELSE NormalizeLoop(normalized, i + 1, out, last_dot)

normalize_tokens_to_scene(s) == TrimMatchesDot(NormalizeLoop(Nfc(s), 1, <<>>, FALSE))

canonicalize_video_codec(s) ==
    LET l == ToAsciiLowercase(s)
    IN IF Contains(l, <<"2", "6", "5">>) THEN <<"x", "2", "6", "5">>
       ELSE IF Contains(l, <<"2", "6", "4">>) THEN <<"x", "2", "6", "4">>
       ELSE s

(* language_tag that looks for French before it counts the languages *)
language_tag_french_first(tech) ==
    IF <<"f", "r">> \in tech.audio_languages THEN Some(<<"V", "F">>)
    ELSE IF Cardinality(tech.audio_languages) > 1 THEN Some(<<"M", "U", "L", "T", "i", ".", "V", "F">>)
    ELSE IF tech.audio_languages = {<<"e", "n">>} THEN Some(<<"V", "O", "S", "T", "F", "R">>)
    ELSE None

language_tag(tech) ==
    LET count == Cardinality(tech.audio_languages)
    IN IF count = 0 THEN None
       ELSE IF count > 1 THEN Some(<<"M", "U", "L", "T", "i", ".", "V", "F">>)
       ELSE LET only == CHOOSE l \in tech.audio_languages : TRUE
            IN IF only = <<"f", "r">> THEN Some(<<"V", "F">>)
               ELSE IF only = <<"e", "n">> THEN Some(<<"V", "O", "S", "T", "F", "R">>)
               ELSE None

(* sanitize_release_group that keeps the letters and digits of any script *)
sanitize_release_group_any_script(s) == SelectSeq(s, IsAlphanumeric)

sanitize_release_group(s) == SelectSeq(s, IsAsciiAlphanumeric)

infer_resolution_from_quality(q) ==
    IF IsSome(q)
    THEN LET ql == ToAsciiLowercase(Unwrap(q))
         IN IF Contains(ql, <<"2", "1", "6", "0">>) \/ Contains(ql, <<"u", "h", "d">>) \/ Contains(ql, <<"4", "k">>)
            THEN Some(<<"2", "1", "6", "0", "p">>)
            ELSE IF Contains(ql, <<"1", "4", "4", "0">>) THEN Some(<<"1", "4", "4", "0", "p">>)
            ELSE IF Contains(ql, <<"1", "0", "8", "0">>) \/ Contains(ql, <<"f", "h", "d">>) THEN Some(<<"1", "0", "8", "0", "p">>)
            ELSE IF Contains(ql, <<"7", "2", "0">>) \/ Contains(ql, <<"h", "d">>) THEN Some(<<"7", "2", "0", "p">>)
            ELSE None
    ELSE None

infer_source_from_quality(q) ==
    IF IsSome(q)
    THEN LET ql == ToAsciiLowercase(Unwrap(q))
         IN IF Contains(ql, <<"w", "e", "b", "-", "d", "l">>) \/ Contains(ql, <<"w", "e", "b", "r", "i", "p">>) \/ Contains(ql, <<"w", "e", "b">>)
            THEN Some(<<"W", "E", "B">>)
            ELSE IF Contains(ql, <<"b", "l", "u">>) THEN Some(<<"B", "l", "u", "R", "a", "y">>)
            ELSE None
    ELSE None

(* SceneNameParts::default() *)
DefaultParts ==
    [title_tokens |-> <<>>, year |-> None, episode_tag |-> None, resolution |-> None,
     source |-> None, video_codec |-> None, audio_codec |-> None,
     audio_channels |-> None, bit_depth |-> None, hdr |-> FALSE, dv |-> FALSE,
     languages |-> {}, language_tag |-> None, release_group |-> None, extra_tags |-> {}]

(* title.split('.') of a non-empty normalized title, else no tokens: lines 129-132 *)
TitleTokens(title_text) ==
    LET title == normalize_tokens_to_scene(title_text)
    IN IF title /= <<>> THEN Split(title, ".", 1, <<>>) ELSE <<>>

(* ResolutionAndSource that keeps the source when the resolutions differ *)
ResolutionAndSourceKeepingSource(quality, tech) ==
    LET inferred_res == infer_resolution_from_quality(quality)
    IN [resolution |-> IF IsSome(tech.resolution) THEN tech.resolution ELSE inferred_res,
        source |-> infer_source_from_quality(quality)]

(* resolution and source: lines 139-150, 225-236, 274-285 *)
ResolutionAndSource(quality, tech) ==
    LET inferred_res == infer_resolution_from_quality(quality)
        inferred_source == infer_source_from_quality(quality)
    IN IF IsSome(tech.resolution) /\ IsSome(inferred_res) /\ tech.resolution /= inferred_res
       THEN [resolution |-> tech.resolution, source |-> None]
       ELSE [resolution |-> IF IsSome(tech.resolution) THEN tech.resolution
                            ELSE inferred_res,
             source |-> inferred_source]

(* the release group of the hints, sanitized, dropped when empty: lines 169-173 *)
ReleaseGroupPart(release_group) ==
    IF IsSome(release_group) /\ sanitize_release_group(Unwrap(release_group)) /= <<>>
    THEN Some(sanitize_release_group(Unwrap(release_group)))
    ELSE None

(* the fields the three builders fill the same way: lines 136-173, 222-257, 272-305 *)
WithTechnicalParts(parts, quality, release_group, tech) ==
    [parts EXCEPT
        !.language_tag = language_tag(tech),
        !.resolution = ResolutionAndSource(quality, tech).resolution,
        !.source = ResolutionAndSource(quality, tech).source,
        !.hdr = tech.hdr,
        !.dv = tech.dv,
        !.bit_depth = tech.bit_depth,
        !.audio_codec = tech.audio_codec,
        !.audio_channels = tech.audio_channels,
        !.video_codec = IF IsSome(tech.video_codec)
                        THEN Some(canonicalize_video_codec(Unwrap(tech.video_codec)))
                        ELSE None,
        !.extra_tags = IF tech.has_vfi THEN {<<"V", "F", "I">>} ELSE {},
        !.release_group = ReleaseGroupPart(release_group)]

build_parts_from(hints, tech) ==
    WithTechnicalParts([DefaultParts EXCEPT !.title_tokens = TitleTokens(hints.title),
                                            !.year = hints.year],
                       hints.quality, hints.release_group, tech)

(* Vec::sort_unstable on numbers: insertion into an ascending list *)
RECURSIVE InsertSorted(_, _)
InsertSorted(sorted, n) ==
    IF sorted = <<>> THEN <<n>>
    ELSE IF n <= sorted[1] THEN <<n>> \o sorted
    ELSE <<sorted[1]>> \o InsertSorted(Tail(sorted), n)

RECURSIVE SortUnstable(_)
SortUnstable(nums) ==
    IF nums = <<>> THEN <<>> ELSE InsertSorted(SortUnstable(Tail(nums)), nums[1])

(* Vec::dedup: removes consecutive repeated elements *)
RECURSIVE Dedup(_)
Dedup(nums) ==
    IF Len(nums) < 2 THEN nums
    ELSE IF nums[1] = nums[2] THEN Dedup(Tail(nums))
    ELSE <<nums[1]>> \o Dedup(Tail(nums))

(* the concatenation of format!("E{:0w$}", n) over the numbers *)
RECURSIVE EpisodeTokens(_, _)
EpisodeTokens(nums, w) ==
    IF nums = <<>> THEN <<>>
    ELSE <<"E">> \o FormatPadded(nums[1], w) \o EpisodeTokens(Tail(nums), w)

(* episode_tag_from_hints that prefers the season and episode numbers *)
episode_tag_season_first(hints) ==
    IF IsSome(hints.season_number) /\ hints.episode_numbers /= <<>>
    THEN Some(<<"S">> \o FormatPadded(Unwrap(hints.season_number), 2)
              \o EpisodeTokens(Dedup(SortUnstable(hints.episode_numbers)), 2))
    ELSE IF hints.absolute_episode_numbers /= <<>>
    THEN Some(EpisodeTokens(Dedup(SortUnstable(hints.absolute_episode_numbers)), 3))
    ELSE None

episode_tag_from_hints(hints) ==
    IF hints.absolute_episode_numbers /= <<>>
    THEN Some(EpisodeTokens(Dedup(SortUnstable(hints.absolute_episode_numbers)), 3))
    ELSE IF ~IsSome(hints.season_number) THEN None
    ELSE IF hints.episode_numbers = <<>> THEN None
    ELSE Some(<<"S">> \o FormatPadded(Unwrap(hints.season_number), 2)
              \o EpisodeTokens(Dedup(SortUnstable(hints.episode_numbers)), 2))

build_episode_parts_from(hints, tech) ==
    WithTechnicalParts([DefaultParts EXCEPT !.title_tokens = TitleTokens(hints.series_title),
                                            !.episode_tag = episode_tag_from_hints(hints)],
                       hints.quality, hints.release_group, tech)

(* build_pack_parts_from that leaves the year of the hints out *)
build_pack_parts_from_tag_only(hints, tech) ==
    WithTechnicalParts([DefaultParts EXCEPT
                            !.title_tokens = TitleTokens(hints.title),
                            !.episode_tag = Some(normalize_tokens_to_scene(hints.pack_tag))],
                       hints.quality, hints.release_group, tech)

build_pack_parts_from(hints, tech) ==
    WithTechnicalParts([DefaultParts EXCEPT
                            !.title_tokens = TitleTokens(hints.title),
                            !.year = hints.year,
                            !.episode_tag = Some(normalize_tokens_to_scene(hints.pack_tag))],
                       hints.quality, hints.release_group, tech)

salvage_special_tags(original) ==
    IF ~IsSome(original) THEN {}
    ELSE LET l == ToAsciiLowercase(Unwrap(original))
         IN (IF Contains(l, <<"i", "m", "a", "x">>) THEN {<<"I", "M", "A", "X">>} ELSE {})
            \cup (IF Contains(l, <<"h", "d", "l", "i", "g", "h", "t">>) THEN {<<"H", "D", "L", "i", "g", "h", "t">>} ELSE {})
            \cup (IF Contains(l, <<"4", "k", "l", "i", "g", "h", "t">>) \/ Contains(l, <<"4", "k", " ", "l", "i", "g", "h", "t">>)
                  THEN {<<"4", "K", "L", "i", "g", "h", "t">>} ELSE {})
            \cup (IF Contains(l, <<"u", "n", "r", "a", "t", "e", "d">>) THEN {<<"U", "n", "r", "a", "t", "e", "d">>} ELSE {})
            \cup (IF Contains(l, <<"e", "x", "t", "e", "n", "d", "e", "d">>) THEN {<<"E", "x", "t", "e", "n", "d", "e", "d">>} ELSE {})
            \cup (IF Contains(l, <<"r", "e", "m", "a", "s", "t", "e", "r", "e", "d">>) THEN {<<"R", "e", "m", "a", "s", "t", "e", "r", "e", "d">>} ELSE {})
            \cup (IF Contains(l, <<"d", "i", "r", "e", "c", "t", "o", "r">>) /\ Contains(l, <<"c", "u", "t">>)
                  THEN {<<"D", "i", "r", "e", "c", "t", "o", "r", "s", ".", "C", "u", "t">>} ELSE {})
            \cup (IF Contains(l, <<"t", "h", "e", "a", "t", "r", "i", "c", "a", "l", " ", "c", "u", "t">>) THEN {<<"T", "h", "e", "a", "t", "r", "i", "c", "a", "l", ".", "C", "u", "t">>} ELSE {})
            \cup (IF Contains(l, <<"p", "r", "o", "p", "e", "r">>) THEN {<<"P", "r", "o", "p", "e", "r">>} ELSE {})
            \cup (IF Contains(l, <<"r", "e", "p", "a", "c", "k">>) THEN {<<"R", "e", "p", "a", "c", "k">>} ELSE {})

(* the extra tags extras_to_vec leaves out: lines 375-382 *)
SkippedExtra(parts, e) ==
    LET el == ToAsciiUppercase(e)
    IN \/ (el = <<"H", "D", "R">> /\ parts.hdr)
       \/ (el = <<"D", "V">> /\ parts.dv)
       \/ (IsSome(parts.bit_depth) /\ Contains(el, <<"B", "I", "T">>))

(* the set extras_to_vec collects: lines 358-384 *)
ExtrasSet(parts) ==
    (IF parts.hdr THEN {<<"H", "D", "R">>} ELSE {})
    \cup (IF parts.dv THEN {<<"D", "V">>} ELSE {})
    \cup (IF IsSome(parts.bit_depth) THEN {Unwrap(parts.bit_depth)} ELSE {})
    \cup parts.languages
    \cup {e \in parts.extra_tags : ~SkippedExtra(parts, e)}

(* extras_to_vec whose order is that of the length of the tags *)
RECURSIVE ExtrasByLength(_)
ExtrasByLength(set) ==
    IF set = {} THEN <<>>
    ELSE LET first == CHOOSE a \in set :
                          \A b \in set : a = b \/ Len(a) < Len(b)
                                         \/ (Len(a) = Len(b) /\ StringLess(a, b))
         IN <<first>> \o ExtrasByLength(set \ {first})

extras_to_vec_by_length(parts) == ExtrasByLength(ExtrasSet(parts))

extras_to_vec(parts) == AscendingStrings(ExtrasSet(parts))

(* one segment of a name: what it is and its text *)
Seg(role, text) == <<[role |-> role, text |-> text]>>

OptionSeg(role, o) == IF IsSome(o) THEN Seg(role, Unwrap(o)) ELSE <<>>

(* Segments with the video codec before the audio codec *)
SegmentsVideoFirst(parts) ==
    (IF parts.title_tokens /= <<>> THEN Seg("title", Join(parts.title_tokens, <<".">>))
     ELSE <<>>)
    \o (IF IsSome(parts.year) THEN Seg("year", ToDigits(Unwrap(parts.year))) ELSE <<>>)
    \o OptionSeg("episode_tag", parts.episode_tag)
    \o OptionSeg("language_tag", parts.language_tag)
    \o OptionSeg("resolution", parts.resolution)
    \o OptionSeg("source", parts.source)
    \o [i \in DOMAIN extras_to_vec(parts) |-> [role |-> "extra", text |-> extras_to_vec(parts)[i]]]
    \o OptionSeg("video_codec", parts.video_codec)
    \o OptionSeg("audio_codec", parts.audio_codec)
    \o OptionSeg("audio_channels", parts.audio_channels)

(* segs of assemble: lines 390-433 *)
Segments(parts) ==
    (IF parts.title_tokens /= <<>> THEN Seg("title", Join(parts.title_tokens, <<".">>))
     ELSE <<>>)
    \o (IF IsSome(parts.year) THEN Seg("year", ToDigits(Unwrap(parts.year))) ELSE <<>>)
    \o OptionSeg("episode_tag", parts.episode_tag)
    \o OptionSeg("language_tag", parts.language_tag)
    \o OptionSeg("resolution", parts.resolution)
    \o OptionSeg("source", parts.source)
    \o [i \in DOMAIN extras_to_vec(parts) |-> [role |-> "extra", text |-> extras_to_vec(parts)[i]]]
    \o OptionSeg("audio_codec", parts.audio_codec)
    \o OptionSeg("audio_channels", parts.audio_channels)
    \o OptionSeg("video_codec", parts.video_codec)

SegTexts(segs) == [i \in DOMAIN segs |-> segs[i].text]

assemble(parts) ==
    Join(SegTexts(Segments(parts)), <<".">>)
    \o (IF IsSome(parts.release_group) THEN <<"-">> \o Unwrap(parts.release_group)
        ELSE <<>>)

IsKept(c) == ~IsControl(c) /\ c \notin BLACKLIST

sanitize_scene_name(s) == SelectSeq(s, IsKept)

(* the salvage loop of a Builder that also trusts the source of the original *)
WithSalvageTrustingSource(parts, original) ==
    [parts EXCEPT !.extra_tags = @ \cup salvage_special_tags(original),
                  !.source = IF ~IsSome(@) /\ IsSome(original)
                                /\ Contains(ToAsciiLowercase(Unwrap(original)), <<"b", "l", "u", "r", "a", "y">>)
                             THEN Some(<<"B", "l", "u", "R", "a", "y">>)
                             ELSE @]

(* the parts after the salvage loop: lines 454-458, 482-485, 499-502 *)
WithSalvage(parts, original) ==
    [parts EXCEPT !.extra_tags = @ \cup salvage_special_tags(original)]

(* a SceneDecision; the parts it was assembled from are kept beside it *)
Rebuilt(parts, issues) ==
    [chosen |-> sanitize_scene_name(assemble(parts)),
     reason |-> [kind |-> "Rebuilt", issues |-> issues],
     parts |-> parts]

(* propose_scene_name that accepts a valid original as it is *)
propose_scene_name_accepting(original, hints, tech, validation) ==
    IF IsSome(original) /\ IsSome(validation) /\ Unwrap(validation).valid
    THEN [chosen |-> Unwrap(original),
          reason |-> [kind |-> "AcceptedExisting", issues |-> <<>>],
          parts |-> WithSalvage(build_parts_from(hints, tech), original)]
    ELSE Rebuilt(WithSalvage(build_parts_from(hints, tech), original),
                 IF IsSome(validation) THEN Unwrap(validation).issues ELSE <<>>)

propose_scene_name(original, hints, tech, validation) ==
    Rebuilt(WithSalvage(build_parts_from(hints, tech), original),
            IF IsSome(validation) THEN Unwrap(validation).issues ELSE <<>>)

propose_episode_scene_name(original, hints, tech) ==
    Rebuilt(WithSalvage(build_episode_parts_from(hints, tech), original), <<>>)

propose_pack_scene_name(original, hints, tech) ==
    Rebuilt(WithSalvage(build_pack_parts_from(hints, tech), original), <<>>)

----------------------------------------------------------------------------
(* The technical info of a probed file, as far as the languages go:
   src/src/core/media/mediainfo.rs lines 184-190 *)

LanguageCode(lang) ==
    LET lc == ToAsciiLowercase(lang)
    IN IF StartsWith(lc, <<"f", "r">>) THEN <<"f", "r">>
       ELSE IF StartsWith(lc, <<"e", "n">>) THEN <<"e", "n">>
       ELSE lc

(* TechnicalInfoOf that keeps the language of the first audio track only *)
TechnicalInfoOfFirstTrack(probe) ==
    [resolution |-> probe.resolution, video_codec |-> probe.video_codec,
     bit_depth |-> probe.bit_depth, hdr |-> probe.hdr, dv |-> probe.dv,
     audio_codec |-> probe.audio_codec, audio_channels |-> probe.audio_channels,
     audio_languages |-> IF probe.audio_track_languages = <<>> THEN {}
                         ELSE {LanguageCode(probe.audio_track_languages[1])},
     has_vfi |-> probe.has_vfi]

(* the TechnicalInfo collected from the tracks of a file; audio_languages is a
   BTreeSet filled by one insert per audio track *)
TechnicalInfoOf(probe) ==
    [resolution |-> probe.resolution, video_codec |-> probe.video_codec,
     bit_depth |-> probe.bit_depth, hdr |-> probe.hdr, dv |-> probe.dv,
     audio_codec |-> probe.audio_codec, audio_channels |-> probe.audio_channels,
     audio_languages |-> {LanguageCode(probe.audio_track_languages[i]) :
                             i \in DOMAIN probe.audio_track_languages},
     has_vfi |-> probe.has_vfi]

----------------------------------------------------------------------------
(* The Validator: src/src/core/naming/validator.rs *)

(* str::trim: the string without its leading and trailing white space *)
Trim(s) ==
    LET kept == {i \in DOMAIN s : s[i] \notin {" ", "<tab>", "<newline>"}}
    IN IF kept = {} THEN <<>>
       ELSE SubSeq(s, CHOOSE i \in kept : \A j \in kept : i <= j,
                      CHOOSE i \in kept : \A j \in kept : j <= i)

(* is_match of the regex (?i)\b(w1|w2|...)\b: one of the words, in any letter
   case, with no word character (letter, digit, underscore) right before or
   right after it *)
IsWordMatch(s, words) ==
    LET IsWordChar(c) == IsAlphanumeric(c) \/ c = "_"
    IN \E w \in words : \E i \in 1..(Len(s) - Len(w) + 1) :
           /\ ToAsciiLowercase(SubSeq(s, i, i + Len(w) - 1)) = w
           /\ (i = 1 \/ ~IsWordChar(s[i - 1]))
           /\ (i + Len(w) - 1 = Len(s) \/ ~IsWordChar(s[i + Len(w)]))

(* YEAR_RE, (19|20)\d{2}: 19 or 20 and two digits, anywhere in the string *)
IsYearMatch(s) ==
    \E i \in 1..(Len(s) - 3) :
        /\ SubSeq(s, i, i + 1) \in {<<"1", "9">>, <<"2", "0">>}
        /\ s[i + 2] \in Range(DigitChars)
        /\ s[i + 3] \in Range(DigitChars)

(* the words of RESOLUTION_RE, SOURCE_RE and VIDEO_CODEC_RE, in lower case *)
RESOLUTION_RE == {<<"4", "8", "0", "p">>, <<"5", "7", "6", "p">>, <<"7", "2", "0", "p">>, <<"1", "0", "8", "0", "p">>, <<"2", "1", "6", "0", "p">>, <<"4", "k">>, <<"8", "k">>}

SOURCE_RE ==
    {<<"a", "m", "z", "n">>, <<"a", "m", "z", "n", ".", "w", "e", "b">>, <<"a", "m", "z", "n", ".", "w", "e", "b", "-", "d", "l">>, <<"a", "m", "z", "n", ".", "w", "e", "b", "d", "l">>, <<"w", "e", "b">>, <<"w", "e", "b", "-", "d", "l">>, <<"w", "e", "b", "d", "l">>,
     <<"w", "e", "b", "r", "i", "p">>, <<"b", "l", "u", "-", "r", "a", "y">>, <<"b", "l", "u", " ", "r", "a", "y">>, <<"b", "l", "u", "r", "a", "y">>, <<"b", "r", "r", "i", "p">>, <<"b", "d", "r", "i", "p">>, <<"h", "d", "l", "i", "g", "h", "t">>,
     <<"h", "d", "l", "i", "g", "h">>, <<"m", "h", "d">>}

VIDEO_CODEC_RE ==
    {<<"x", "2", "6", "5">>, <<"x", "2", "6", "4">>, <<"h", ".", "2", "6", "5">>, <<"h", "2", "6", "5">>, <<"h", ".", "2", "6", "4">>, <<"h", "2", "6", "4">>, <<"h", "e", "v", "c">>, <<"a", "v", "c">>}

looks_dot_separated(name) == Cardinality({i \in DOMAIN name : name[i] = "."}) >= 2

(* the checks of a non-empty trimmed name, in the order of the code, each with
   the issue it pushes when it fails *)
Checks(trimmed) ==
    <<[issue |-> "IsUnknown", failed |-> ToAsciiLowercase(trimmed) = <<"u", "n", "k", "n", "o", "w", "n">>],
      [issue |-> "MissingDots", failed |-> ~looks_dot_separated(trimmed)],
      [issue |-> "MissingYear", failed |-> ~IsYearMatch(trimmed)],
      [issue |-> "MissingResolution", failed |-> ~IsWordMatch(trimmed, RESOLUTION_RE)],
      [issue |-> "MissingSource", failed |-> ~IsWordMatch(trimmed, SOURCE_RE)],
      [issue |-> "MissingVideoCodec", failed |-> ~IsWordMatch(trimmed, VIDEO_CODEC_RE)]>>

(* the issues pushed: those of the checks that failed, in order *)
IssuesOf(checks) ==
    LET failed == SelectSeq(checks, LAMBDA c : c.failed)
    IN [i \in DOMAIN failed |-> failed[i].issue]

(* validate_scene_name that stops at the first check that fails *)
validate_scene_name_first_issue(name) ==
    LET trimmed == Trim(name)
        all == IF trimmed = <<>> THEN <<"Empty">> ELSE IssuesOf(Checks(trimmed))
        issues == IF all = <<>> THEN <<>> ELSE <<all[1]>>
    IN [valid |-> issues = <<>>, issues |-> issues]

validate_scene_name(name) ==
    LET trimmed == Trim(name)
        issues == IF trimmed = <<>> THEN <<"Empty">> ELSE IssuesOf(Checks(trimmed))
    IN [valid |-> issues = <<>>, issues |-> issues]

----------------------------------------------------------------------------
(* Inputs *)

Seasons == 0..MaxSeason
EpisodeIds == 1..MaxEpisodes

(* a season number no u16 holds, and an episode id no episode record has *)
SeasonTooLarge == U16Max + 1
UnknownEpisodeId == MaxEpisodes + 1

Configs(SeedPathSet) ==
    [only_complete_seasons : BOOLEAN,
     create_integrale_pack_if_complete : BOOLEAN,
     per_episode_for_incomplete_seasons : BOOLEAN,
     seed_path_set : SeedPathSet,
     path_mappings : {PathMappings}]

(* Episode lists: the episode at position i has id i *)
EpisodeLists(SeasonNumbers, Monitored) ==
    {[i \in DOMAIN l |-> [id |-> i,
                          season_number |-> l[i].season_number,
                          monitored |-> l[i].monitored,
                          has_file |-> l[i].has_file]] :
        l \in SeqsUpTo([season_number : SeasonNumbers,
                        monitored : Monitored,
                        has_file : BOOLEAN], MaxEpisodes)}

(* episodeIds of a file: one known id, or two known ids in ascending order *)
KnownIdLists ==
    {<<e>> : e \in EpisodeIds}
    \cup {<<e[1], e[2]>> : e \in {x \in EpisodeIds \X EpisodeIds : x[1] < x[2]}}

FileLists(Paths, SeasonFields, IdLists, Groups, QualityNames) ==
    SeqsUpTo([path : Paths,
              season_number : SeasonFields,
              episode_ids : IdLists,
              release_group : Groups,
              quality : QualityNames], MaxFiles)

----------------------------------------------------------------------------
(* The state machine *)

InitWith(Cfgs, Eps, Files) ==
    /\ pc = "list_episodes"
    /\ config \in Cfgs
    /\ episodes \in Eps
    /\ episode_files \in Files
    /\ episode_by_id = <<>>
    /\ episodes_by_season = <<>>
    /\ season_to_files = <<>>
    /\ all_mapped_files = <<>>
    /\ unmapped_episode_files = 0
    /\ complete_seasons = {}
    /\ incomplete_seasons = {}
    /\ series_complete = FALSE
    /\ pack_seasons = {}
    /\ calls = <<>>
    /\ request = None
    /\ decision = None
    /\ previous = None
    /\ final_scene_name = None
    /\ effects = <<>>

(* Every configuration, every kind of episode record (season numbers that are
   0, positive, or too large for a u16), files without an explicit season *)
Init ==
    InitWith(Configs(BOOLEAN),
             EpisodeLists(Seasons \cup {SeasonTooLarge}, BOOLEAN),
             FileLists(FilePaths, {None}, KnownIdLists, {None}, {None}))

(* Every kind of file record (explicit season or none; no, known or unknown
   episode ids; resolvable or unresolvable path), monitored episodes, a seed path *)
InitFiles ==
    InitWith(Configs({TRUE}),
             EpisodeLists(Seasons, {TRUE}),
             FileLists(FilePaths, {None, Some(0), Some(1)},
                       KnownIdLists \cup {<<>>, <<UnknownEpisodeId>>}, {None}, {None}))

(* Files with and without release groups, in seasons 1..MaxSeason *)
InitGroups ==
    InitWith(Configs({TRUE}),
             EpisodeLists(Seasons \ {0}, {TRUE}),
             FileLists(FilePaths \ {PathU}, {None}, {<<e>> : e \in EpisodeIds},
                       {None, Some("G1"), Some("G2")}, {None}))

(* Files with and without a quality name (an empty name included), on every
   path, in seasons 1..MaxSeason *)
InitPacks ==
    InitWith(Configs({TRUE}),
             EpisodeLists(Seasons \ {0}, {TRUE}),
             FileLists(FilePaths, {None}, {<<e>> : e \in EpisodeIds}, {None},
                       {None, Some(""), Some("HDTV-720p")}))

(* lines 43-60 *)
IndexEpisodes ==
    /\ pc = "list_episodes"
    /\ LET r == IndexEpisodesLoop(episodes, 1, <<>>, <<>>)
       IN /\ episode_by_id' = r.by_id
          /\ episodes_by_season' = r.by_season
    /\ pc' = "list_episode_files"
    /\ UNCHANGED <<request, decision, previous, final_scene_name, effects>>
    /\ UNCHANGED <<config, episodes, episode_files, season_to_files, all_mapped_files,
                   unmapped_episode_files, complete_seasons, incomplete_seasons,
                   series_complete, pack_seasons, calls>>

(* lines 62-122 *)
MapFiles ==
    /\ pc = "list_episode_files"
    /\ LET r == MapFilesLoop(episode_files, 1, config, episode_by_id, <<>>, <<>>, 0)
       IN /\ season_to_files' = r.s2f
          /\ all_mapped_files' = r.mapped
          /\ unmapped_episode_files' = r.unmapped
    /\ pc' = "classify"
    /\ UNCHANGED <<request, decision, previous, final_scene_name, effects>>
    /\ UNCHANGED <<config, episodes, episode_files, episode_by_id, episodes_by_season,
                   complete_seasons, incomplete_seasons, series_complete, pack_seasons,
                   calls>>

(* lines 124-177 *)
Classify ==
    /\ pc = "classify"
    /\ complete_seasons' = CompleteSeasons(episodes_by_season, episode_by_id)
    /\ incomplete_seasons' = IncompleteSeasons(episodes_by_season, episode_by_id)
    /\ series_complete' = SeriesComplete(incomplete_seasons', episodes_by_season)
    /\ pack_seasons' = PackSeasons(config, complete_seasons', incomplete_seasons')
    /\ pc' = "season_packs"
    /\ UNCHANGED <<request, decision, previous, final_scene_name, effects>>
    /\ UNCHANGED <<config, episodes, episode_files, episode_by_id, episodes_by_season,
                   season_to_files, all_mapped_files, unmapped_episode_files, calls>>

(* lines 179-204 *)
SeasonPacks ==
    /\ pc = "season_packs"
    /\ calls' = calls \o SeasonPackLoop(Ascending(pack_seasons), 1, season_to_files, config)
    /\ pc' = "integrale"
    /\ UNCHANGED <<request, decision, previous, final_scene_name, effects>>
    /\ UNCHANGED <<config, episodes, episode_files, episode_by_id, episodes_by_season,
                   season_to_files, all_mapped_files, unmapped_episode_files,
                   complete_seasons, incomplete_seasons, series_complete, pack_seasons>>

(* lines 206-223 *)
Integrale ==
    /\ pc = "integrale"
    /\ calls' = IF config.create_integrale_pack_if_complete /\ series_complete
                THEN calls \o create_integrale_pack(all_mapped_files, config)
                ELSE calls
    /\ pc' = "per_episode"
    /\ UNCHANGED <<request, decision, previous, final_scene_name, effects>>
    /\ UNCHANGED <<config, episodes, episode_files, episode_by_id, episodes_by_season,
                   season_to_files, all_mapped_files, unmapped_episode_files,
                   complete_seasons, incomplete_seasons, series_complete, pack_seasons>>

(* lines 225-264 *)
PerEpisode ==
    /\ pc = "per_episode"
    /\ calls' = IF config.per_episode_for_incomplete_seasons
                THEN calls \o PerEpisodeLoop(Ascending(incomplete_seasons), 1, pack_seasons,
                                             season_to_files, config)
                ELSE calls
    /\ pc' = "done"
    /\ UNCHANGED <<request, decision, previous, final_scene_name, effects>>
    /\ UNCHANGED <<config, episodes, episode_files, episode_by_id, episodes_by_season,
                   season_to_files, all_mapped_files, unmapped_episode_files,
                   complete_seasons, incomplete_seasons, series_complete, pack_seasons>>

Next ==
    \/ IndexEpisodes
    \/ MapFiles
    \/ Classify
    \/ SeasonPacks
    \/ Integrale
    \/ PerEpisode

Spec == Init /\ [][Next]_vars
SpecFiles == InitFiles /\ [][Next]_vars
SpecPacks == InitPacks /\ [][Next]_vars

SpecGroups == InitGroups /\ [][Next]_vars

----------------------------------------------------------------------------
(* Inputs of the Name Builder *)

(* the hints of the three kinds of call: RadarrHints, EpisodeHints, PackHints *)
RadarrHints(title, year, quality, release_group) ==
    [title |-> title, year |-> year, quality |-> quality, release_group |-> release_group]

EpisodeHints(title, year, season_number, episode_numbers, absolute_episode_numbers, quality, release_group) ==
    [series_title |-> title, series_year |-> year, season_number |-> season_number,
     episode_numbers |-> episode_numbers,
     absolute_episode_numbers |-> absolute_episode_numbers,
     quality |-> quality, release_group |-> release_group]

PackHints(title, year, pack_tag, quality, release_group) ==
    [title |-> title, year |-> year, pack_tag |-> pack_tag, quality |-> quality,
     release_group |-> release_group]

(* hints of a kind with the given common fields; an episode S01E02, a pack S01 *)
HintsOf(kind, title, year, quality, release_group) ==
    CASE kind = "movie" -> RadarrHints(title, year, quality, release_group)
      [] kind = "episode" -> EpisodeHints(title, year, Some(1), <<2>>, <<>>, quality,
                                          release_group)
      [] kind = "pack" -> PackHints(title, year, <<"S", "0", "1">>, quality, release_group)

Kinds == {"movie", "episode", "pack"}

Request(kind, original, hints, probe, validation) ==
    [kind |-> kind, original |-> original, hints |-> hints, probe |-> probe,
     validation |-> validation]

Probe(resolution, video_codec, bit_depth, hdr, dv, audio_codec, audio_channels, audio_track_languages, has_vfi) ==
    [resolution |-> resolution, video_codec |-> video_codec, bit_depth |-> bit_depth,
     hdr |-> hdr, dv |-> dv, audio_codec |-> audio_codec,
     audio_channels |-> audio_channels, audio_track_languages |-> audio_track_languages,
     has_vfi |-> has_vfi]

TitleLeFilm == <<"L", "e", " ", "F", "i", "l", "m">>
QualityWebdl1080 == <<"W", "E", "B", "D", "L", "-", "1", "0", "8", "0", "p">>
GroupGRP == <<"G", "R", "P">>

(* a file with every technical field, one French audio track *)
FullProbe ==
    Probe(Some(<<"1", "0", "8", "0", "p">>), Some(<<"x", "2", "6", "5">>), Some(<<"1", "0", "b", "i", "t">>), TRUE, FALSE, Some(<<"E", "A", "C", "3">>),
          Some(<<"5", ".", "1">>), <<<<"f", "r">>>>, FALSE)

(* quality names of the library manager, and resolutions of the probe *)
QualityNames ==
    {None, Some(<<"W", "E", "B", "D", "L", "-", "1", "0", "8", "0", "p">>), Some(<<"B", "l", "u", "r", "a", "y", "-", "7", "2", "0", "p">>), Some(<<"H", "D", "T", "V", "-", "7", "2", "0", "p">>),
     Some(<<"W", "E", "B", "R", "i", "p", "-", "4", "8", "0", "p">>), Some(<<"B", "l", "u", "r", "a", "y", "-", "2", "1", "6", "0", "p">>), Some(<<"D", "V", "D">>)}

Resolutions == {None, Some(<<"1", "0", "8", "0", "p">>), Some(<<"7", "2", "0", "p">>), Some(<<"4", "8", "0", "p">>)}

TrackLanguages == {<<"f", "r">>, <<"e", "n">>, <<"j", "a">>}

(* original names: none; one with a year, resolution, source, codec and group
   but no keyword; names with keywords, in several spellings *)
OriginalPlain == <<"O", "l", "d", ".", "N", "a", "m", "e", ".", "2", "0", "1", "9", ".", "7", "2", "0", "p", ".", "B", "l", "u", "R", "a", "y", ".", "x", "2", "6", "4", "-", "O", "L", "D">>
Originals ==
    {None, Some(OriginalPlain), Some(<<"F", "i", "l", "m", " ", "I", "M", "A", "X", " ", "E", "x", "t", "e", "n", "d", "e", "d">>),
     Some(<<"F", "i", "l", "m", ".", "e", "x", "t", "e", "n", "d", "e", "d", ".", "i", "m", "a", "x">>), Some(<<"F", "i", "l", "m", " ", "T", "h", "e", "a", "t", "r", "i", "c", "a", "l", " ", "C", "u", "t">>),
     Some(<<"D", "i", "r", "e", "c", "t", "o", "r", "s", " ", "C", "u", "t", " ", "H", "D", "L", "i", "g", "h", "t">>)}

(* prior validations: none, valid, invalid with two issues *)
Validations ==
    {None, Some([valid |-> TRUE, issues |-> <<>>]),
     Some([valid |-> FALSE, issues |-> <<"MissingYear", "MissingSource">>])}

ReleaseGroupNames ==
    {None, Some(GroupGRP), Some(<<"G", "-", "r", " ", "p">>), Some(<<"-", "!">>), Some(<<"G", "<e-acute>">>),
     Some(<<>>)}

SeasonNumbers == {None, Some(1), Some(100)}
EpisodeNumbers == {1, 2, 100}
AbsoluteNumbers == {5, 12, 1000}

(* calls that differ in the quality name and the probed resolution *)
ResolutionRequests ==
    {Request(k, None, HintsOf(k, TitleLeFilm, Some(2020), q, Some(GroupGRP)),
             [FullProbe EXCEPT !.resolution = r], None) :
        k \in Kinds, q \in QualityNames, r \in Resolutions}

(* calls that differ in the languages of the audio tracks *)
LanguageRequests ==
    {Request(k, None, HintsOf(k, TitleLeFilm, Some(2020), Some(QualityWebdl1080),
                              Some(GroupGRP)),
             [FullProbe EXCEPT !.audio_track_languages = l], None) :
        k \in Kinds, l \in SeqsUpTo(TrackLanguages, MaxLanguages)}

(* episode calls that differ in the season, episode and absolute numbers *)
EpisodeRequests ==
    {Request("episode", None,
             EpisodeHints(TitleLeFilm, Some(2020), s, e, a, Some(QualityWebdl1080),
                          Some(GroupGRP)),
             FullProbe, None) :
        s \in SeasonNumbers, e \in SeqsUpTo(EpisodeNumbers, MaxNumbers),
        a \in SeqsUpTo(AbsoluteNumbers, MaxNumbers)}

(* Some(x) or None *)
Opt(present, x) == IF present THEN Some(x) ELSE None

(* calls in which each segment of the name is present or absent *)
PresenceRequests ==
    {Request(k, None,
             HintsOf(k, IF b[1] THEN TitleLeFilm ELSE <<>>, Opt(b[2], 2020),
                     Opt(b[3], QualityWebdl1080), Opt(b[4], GroupGRP)),
             Probe(Opt(b[5], <<"1", "0", "8", "0", "p">>), Opt(b[6], <<"x", "2", "6", "5">>), None, b[7], FALSE,
                   Opt(b[8], <<"E", "A", "C", "3">>), Opt(b[9], <<"5", ".", "1">>),
                   IF b[10] THEN <<<<"f", "r">>>> ELSE <<>>, FALSE),
             None) :
        k \in Kinds, b \in [1..10 -> BOOLEAN]}

(* calls that differ in the extra tags: those of the probe and those salvaged *)
ExtrasRequests ==
    {Request("movie", o,
             RadarrHints(TitleLeFilm, Some(2020), Some(QualityWebdl1080), Some(GroupGRP)),
             [FullProbe EXCEPT !.hdr = b[1], !.dv = b[2], !.bit_depth = Opt(b[3], <<"1", "0", "b", "i", "t">>),
                               !.has_vfi = b[4]],
             None) :
        o \in Originals, b \in [1..4 -> BOOLEAN]}

(* calls that differ in the release group *)
GroupRequests ==
    {Request(k, None, HintsOf(k, TitleLeFilm, Some(2020), Some(QualityWebdl1080), g),
             FullProbe, None) :
        k \in Kinds, g \in ReleaseGroupNames}

(* movie calls that differ in the original name and its validation *)
ValidationRequests ==
    {Request("movie", o,
             RadarrHints(TitleLeFilm, Some(2020), Some(QualityWebdl1080), Some(GroupGRP)),
             FullProbe, v) :
        o \in Originals, v \in Validations}

BuilderRequests ==
    ResolutionRequests \cup LanguageRequests \cup EpisodeRequests \cup PresenceRequests
    \cup ExtrasRequests \cup GroupRequests \cup ValidationRequests

(* the audio tracks in the opposite order *)
Reverse(s) == [i \in DOMAIN s |-> s[Len(s) + 1 - i]]

(* a second call: the same one, or one that differs from the first only in the
   original name, in the prior validation or in the order of the audio tracks *)
SecondRequests(r) ==
    {r}
    \cup {[r EXCEPT !.original = o] : o \in Originals}
    \cup (IF r.kind = "movie" THEN {[r EXCEPT !.validation = v] : v \in Validations}
          ELSE {})
    \cup {[r EXCEPT !.probe.audio_track_languages = Reverse(@)]}

----------------------------------------------------------------------------
(* The state machine of the Name Builder: a call, its return, and at most one
   more call *)

InitBuilder ==
    /\ pc = "propose"
    /\ request \in BuilderRequests
    /\ decision = None
    /\ previous = None
    /\ final_scene_name = None
    /\ effects = <<>>
    /\ config = None
    /\ episodes = <<>>
    /\ episode_files = <<>>
    /\ episode_by_id = <<>>
    /\ episodes_by_season = <<>>
    /\ season_to_files = <<>>
    /\ all_mapped_files = <<>>
    /\ unmapped_episode_files = 0
    /\ complete_seasons = {}
    /\ incomplete_seasons = {}
    /\ series_complete = FALSE
    /\ pack_seasons = {}
    /\ calls = <<>>

pipelineVars ==
    <<config, episodes, episode_files, episode_by_id, episodes_by_season,
      season_to_files, all_mapped_files, unmapped_episode_files, complete_seasons,
      incomplete_seasons, series_complete, pack_seasons, calls>>

(* radarr.rs line 71, main.rs line 137 *)
ProposeScene ==
    /\ pc = "propose"
    /\ request.kind = "movie"
    /\ decision' = Some(propose_scene_name(request.original, request.hints,
                                           TechnicalInfoOf(request.probe),
                                           request.validation))
    /\ pc' = "proposed"
    /\ UNCHANGED <<request, previous, final_scene_name, effects>>
    /\ UNCHANGED pipelineVars

(* sonarr.rs line 643 *)
ProposeEpisodeScene ==
    /\ pc = "propose"
    /\ request.kind = "episode"
    /\ decision' = Some(propose_episode_scene_name(request.original, request.hints,
                                                   TechnicalInfoOf(request.probe)))
    /\ pc' = "proposed"
    /\ UNCHANGED <<request, previous, final_scene_name, effects>>
    /\ UNCHANGED pipelineVars

(* sonarr.rs lines 326 and 432 *)
ProposePackScene ==
    /\ pc = "propose"
    /\ request.kind = "pack"
    /\ decision' = Some(propose_pack_scene_name(request.original, request.hints,
                                                TechnicalInfoOf(request.probe)))
    /\ pc' = "proposed"
    /\ UNCHANGED <<request, previous, final_scene_name, effects>>
    /\ UNCHANGED pipelineVars

(* the next item of the loop over the movies or the files *)
NextRequest ==
    /\ pc = "proposed"
    /\ previous = None
    /\ previous' = Some([request |-> request, decision |-> Unwrap(decision)])
    /\ request' \in SecondRequests(request)
    /\ decision' = None
    /\ pc' = "propose"
    /\ UNCHANGED <<final_scene_name, effects>>
    /\ UNCHANGED pipelineVars

NextBuilder ==
    \/ ProposeScene
    \/ ProposeEpisodeScene
    \/ ProposePackScene
    \/ NextRequest

SpecBuilder == InitBuilder /\ [][NextBuilder]_vars

----------------------------------------------------------------------------
(* Inputs of the Validator *)

(* the two names tests::valid_examples accepts and the four names
   tests::invalid_examples rejects (validator.rs lines 63-88) *)
ValidExamples ==
    {<<"R", "e", "b", "e", "l", ".", "M", "o", "o", "n", ".", "P", "a", "r", "t", ".", "O", "n", "e", ".", "A", ".", "C", "h", "i", "l", "d", ".", "o", "f", ".", "F", "i", "r", "e", ".", "2", "0", "2", "3", ".", "M", "U", "L", "T", "i", ".", "1", "0", "8", "0", "p", ".", "W", "E", "B", ".", "x", "2", "6", "4", "-", "F", "W">>,
     <<"T", "h", "e", ".", "B", "l", "u", "e", "s", ".", "B", "r", "o", "t", "h", "e", "r", "s", " ", ".", "1", "9", "8", "0", "-", "M", "U", "L", "T", "I", ".", "(", "V", "F", "F", "-", "V", "O", ")", "-", "1", "0", "8", "0", "p", "-", "H", "D", "L", "i", "g", "h", ".", "x", "2", "6", "4", ".", "a", "c", "3", ".", "m", "H", "D", "g", "z">>}

InvalidExamples ==
    {<<"F", "i", "g", "h", "t", " ", "C", "l", "u", "b", " ", "(", "1", "9", "9", "9", ")", " ", "-", " ", "V", "O", "-", "V", "F", " ", "-", " ", "1", "0", "8", "0", "p", " ", "-", " ", "x", "2", "6", "5">>,
     <<"B", "o", "d", "i", "e", "s", " ", "B", "o", "d", "i", "e", "s", " ", "B", "o", "d", "i", "e", "s", " ", "(", "2", "0", "2", "2", ")", " ", "M", "U", "L", "T", "i", " ", "V", "F", "I", " ", "2", "1", "6", "0", "p", " ", "1", "0", "b", "i", "t", " ", "4", "K", "L", "i", "g", "h", "t", " ", "D", "V", " ", "H", "D", "R", " ", "B", "l", "u", "R", "a", "y", " ", "D", "D", "P", " ", "5", ".", "1", " ", "A", "t", "m", "o", "s", " ", "x", "2", "6", "5", "-", "Q", "T", "Z">>,
     <<"E", "v", "e", "r", "y", "t", "h", "i", "n", "g", " ", "E", "v", "e", "r", "y", "w", "h", "e", "r", "e", " ", "A", "l", "l", " ", "a", "t", " ", "O", "n", "c", "e", " ", "(", "2", "0", "2", "2", ")">>,
     <<"U", "n", "k", "n", "o", "w", "n">>}

(* names made of a title and any of a year, a resolution, a source and a video
   codec, joined by one separator *)
JoinedNames ==
    {Join(<<<<"F", "i", "l", "m">>>> \o (IF b[1] THEN <<<<"2", "0", "2", "3">>>> ELSE <<>>)
          \o (IF b[2] THEN <<<<"1", "0", "8", "0", "p">>>> ELSE <<>>) \o (IF b[3] THEN <<<<"W", "E", "B">>>> ELSE <<>>)
          \o (IF b[4] THEN <<<<"x", "2", "6", "4">>>> ELSE <<>>), <<sep>>) :
        b \in [1..4 -> BOOLEAN], sep \in {".", " ", "_"}}

(* empty and blank names, spellings of unknown, and names whose tokens touch
   other word characters or are written in another way *)
OddNames ==
    {<<>>, <<" ">>, <<"<tab>", " ", "<newline>">>, <<" ", "u", "n", "k", "n", "o", "w", "n", " ">>, <<"U", "N", "K", "N", "O", "W", "N">>, <<"<tab>", "U", "n", "k", "n", "o", "w", "n">>,
     <<"U", "n", "k", "n", "o", "w", "n", ".", "2", "0", "2", "3", ".", "1", "0", "8", "0", "p", ".", "W", "E", "B", ".", "x", "2", "6", "4">>, <<"u", "n", ".", "k", "n", ".", "o", "w", "n">>,
     <<"F", "i", "l", "m", ".", "1", "2", "0", "1", "9", ".", "1", "0", "8", "0", "p", "x", ".", "W", "E", "B", "x", ".", "x", "2", "6", "4", "0">>, <<"F", "i", "l", "m", ".", "1", "8", "9", "9", ".", "4", "K", ".", "B", "l", "u", " ", "R", "a", "y", ".", "H", ".", "2", "6", "4">>,
     <<"F", "i", "l", "m", " ", "2", "0", "1", "9", " ", "8", "k", " ", "A", "M", "Z", "N", ".", "W", "E", "B", "-", "D", "L", " ", "h", "e", "v", "c">>, <<"F", "i", "l", "m", ".", "2", "0", "2", "3", ".", "1", "0", "8", "0", "P", ".", "B", "L", "U", "R", "A", "Y", ".", "X", "2", "6", "5">>,
     <<"a", ".", "b">>, <<".", ".", ".">>, <<" ", "F", "i", "l", "m", ".", "2", "0", "2", "3", ".", "1", "0", "8", "0", "p", ".", "W", "E", "B", ".", "x", "2", "6", "4", " ">>}

ValidatorNames == ValidExamples \cup InvalidExamples \cup JoinedNames \cup OddNames

----------------------------------------------------------------------------
(* The state machine of the Validator: a call and its return *)

(* the series pipeline has not run *)
PipelineIdle ==
    /\ config = None
    /\ episodes = <<>>
    /\ episode_files = <<>>
    /\ episode_by_id = <<>>
    /\ episodes_by_season = <<>>
    /\ season_to_files = <<>>
    /\ all_mapped_files = <<>>
    /\ unmapped_episode_files = 0
    /\ complete_seasons = {}
    /\ incomplete_seasons = {}
    /\ series_complete = FALSE
    /\ pack_seasons = {}
    /\ calls = <<>>

InitValidator ==
    /\ pc = "validate"
    /\ request \in {[kind |-> "validate", name |-> n] : n \in ValidatorNames}
    /\ decision = None
    /\ previous = None
    /\ final_scene_name = None
    /\ effects = <<>>
    /\ PipelineIdle

(* radarr.rs line 69 *)
ValidateSceneName ==
    /\ pc = "validate"
    /\ decision' = Some(validate_scene_name(request.name))
    /\ pc' = "validated"
    /\ UNCHANGED <<request, previous, final_scene_name, effects>>
    /\ UNCHANGED pipelineVars

SpecValidator == InitValidator /\ [][ValidateSceneName]_vars

----------------------------------------------------------------------------
(* Inputs of the Tokenizer: every text of at most MaxText characters over a
   letter, the letter e, a letter outside ASCII, white space, punctuation, a
   dropped symbol, a control character, a combining accent and two jamo *)

TextChars ==
    {"a", "e", "<e-acute>", " ", ".", "-", "<copyright>", "<tab>", "<combining-acute>",
     "<jamo-g>", "<jamo-a>"}

Texts == SeqsUpTo(TextChars, MaxText)

----------------------------------------------------------------------------
(* The state machine of the Tokenizer: a call and its return *)

InitTokenizer ==
    /\ pc = "normalize"
    /\ request \in {[kind |-> "normalize", text |-> t] : t \in Texts}
    /\ decision = None
    /\ previous = None
    /\ final_scene_name = None
    /\ effects = <<>>
    /\ PipelineIdle

(* builder.rs lines 129, 213, 265 *)
NormalizeTokens ==
    /\ pc = "normalize"
    /\ decision' = Some(normalize_tokens_to_scene(request.text))
    /\ pc' = "normalized"
    /\ UNCHANGED <<request, previous, final_scene_name, effects>>
    /\ UNCHANGED pipelineVars

SpecTokenizer == InitTokenizer /\ [][NormalizeTokens]_vars

----------------------------------------------------------------------------
(* The callers of the Name Builder, from the hints to the upload:
   process_movie (src/src/app/radarr.rs), process_episode_file,
   create_season_pack and create_integrale_pack (src/src/app/sonarr.rs) *)

(* src/src/app/common.rs lines 39-62 *)
apply_resolution_fallback(tech, quality) ==
    IF IsSome(tech.resolution) THEN tech
    ELSE IF ~IsSome(quality) THEN tech
    ELSE LET ql == ToAsciiLowercase(Unwrap(quality))
         IN [tech EXCEPT !.resolution =
                IF Contains(ql, <<"2", "1", "6", "0", "p">>) \/ Contains(ql, <<"4", "k">>) THEN Some(<<"2", "1", "6", "0", "p">>)
                ELSE IF Contains(ql, <<"1", "4", "4", "0", "p">>) THEN Some(<<"1", "4", "4", "0", "p">>)
                ELSE IF Contains(ql, <<"1", "0", "8", "0", "p">>) THEN Some(<<"1", "0", "8", "0", "p">>)
                ELSE IF Contains(ql, <<"7", "2", "0", "p">>) THEN Some(<<"7", "2", "0", "p">>)
                ELSE None]

(* the technical info a caller hands to the Builder *)
TechnicalInfoWithFallback(r) ==
    apply_resolution_fallback(TechnicalInfoOf(r.probe), r.hints.quality)

(* the name under which the unit is exported: radarr.rs lines 73-77,
   sonarr.rs lines 328-331, 434-437, 645-648 *)
FinalSceneName(chosen, append_no_tag_on_missing_group, release_group) ==
    IF append_no_tag_on_missing_group /\ ~IsSome(release_group)
    THEN chosen \o <<"-", "N", "o", "T", "a", "g">>
    ELSE chosen

(* the units: a movie, an episode file, a season pack, an integrale pack, with
   any release group, a quality name and a probe with or without resolution *)
Units == {"movie", "episode", "season_pack", "integrale"}

UnitHints(unit, quality, release_group) ==
    CASE unit = "movie" -> RadarrHints(TitleLeFilm, Some(2020), quality, release_group)
      [] unit = "episode" -> EpisodeHints(TitleLeFilm, Some(2020), Some(1), <<2>>, <<>>, quality, release_group)
      [] unit = "season_pack" -> PackHints(TitleLeFilm, Some(2020), <<"S", "0", "1">>, quality, release_group)
      [] unit = "integrale" -> PackHints(TitleLeFilm, Some(2020), <<"I", "N", "T", "E", "G", "R", "A", "L", "E">>, quality, release_group)

UnitQualities ==
    {None, Some(QualityWebdl1080), Some(<<"B", "l", "u", "r", "a", "y", "-", "7", "2", "0", "p">>), Some(<<"W", "E", "B", "D", "L", "-", "2", "1", "6", "0", "p">>), Some(<<"D", "V", "D">>),
     Some(<<"W", "E", "B", "D", "L", "-", "1", "0", "8", "0", "p", " ", "U", "H", "D">>), Some(<<"B", "l", "u", "r", "a", "y", "-", "1", "0", "8", "0", "p">>)}

UnitRequests ==
    {[unit |-> u,
      kind |-> IF u \in {"season_pack", "integrale"} THEN "pack" ELSE u,
      original |-> IF u = "movie" THEN Some(OriginalPlain) ELSE None,
      hints |-> UnitHints(u, q, g),
      probe |-> [FullProbe EXCEPT !.resolution = r],
      validation |-> None] :
        u \in Units, q \in UnitQualities, g \in ReleaseGroupNames,
        r \in {None, Some(<<"1", "0", "8", "0", "p">>)}}

(* media.seed_path, media.append_no_tag_on_missing_group, torrent.dry_run *)
UnitConfigs ==
    [seed_path : {None, Some(<<"/", "s", "e", "e", "d">>)}, append_no_tag_on_missing_group : BOOLEAN,
     dry_run : BOOLEAN]

InitUnits ==
    /\ pc = "synthesize"
    /\ request \in UnitRequests
    /\ config \in UnitConfigs
    /\ decision = None
    /\ previous = None
    /\ final_scene_name = None
    /\ effects = <<>>
    /\ episodes = <<>>
    /\ episode_files = <<>>
    /\ episode_by_id = <<>>
    /\ episodes_by_season = <<>>
    /\ season_to_files = <<>>
    /\ all_mapped_files = <<>>
    /\ unmapped_episode_files = 0
    /\ complete_seasons = {}
    /\ incomplete_seasons = {}
    /\ series_complete = FALSE
    /\ pack_seasons = {}
    /\ calls = <<>>

unitVars ==
    <<request, previous, config, episodes, episode_files, episode_by_id, episodes_by_season,
      season_to_files, all_mapped_files, unmapped_episode_files, complete_seasons,
      incomplete_seasons, series_complete, pack_seasons, calls>>

(* process_movie, radarr.rs lines 64-77 and 96 *)
SynthesizeMovie ==
    /\ pc = "synthesize"
    /\ request.unit = "movie"
    /\ LET validation == validate_scene_name(Unwrap(request.original))
           d == propose_scene_name(request.original, request.hints,
                                   TechnicalInfoWithFallback(request), Some(validation))
       IN /\ decision' = Some(d)
          /\ final_scene_name' =
                 Some(FinalSceneName(d.chosen, config.append_no_tag_on_missing_group,
                                     request.hints.release_group))
    /\ pc' = IF IsSome(config.seed_path) THEN "export" ELSE "emitted"
    /\ UNCHANGED effects
    /\ UNCHANGED unitVars

(* process_episode_file, sonarr.rs lines 601-648 and 675-677 *)
SynthesizeEpisode ==
    /\ pc = "synthesize"
    /\ request.unit = "episode"
    /\ LET d == propose_episode_scene_name(request.original, request.hints,
                                           TechnicalInfoWithFallback(request))
       IN /\ decision' = Some(d)
          /\ final_scene_name' =
                 Some(FinalSceneName(d.chosen, config.append_no_tag_on_missing_group,
                                     request.hints.release_group))
    /\ pc' = IF IsSome(config.seed_path) THEN "export" ELSE "emitted"
    /\ UNCHANGED effects
    /\ UNCHANGED unitVars

(* create_season_pack and create_integrale_pack, sonarr.rs lines 280-331 and
   386-437: nothing is done without a seed path *)
SynthesizePack ==
    /\ pc = "synthesize"
    /\ request.unit \in {"season_pack", "integrale"}
    /\ IF ~IsSome(config.seed_path)
       THEN /\ pc' = "emitted"
            /\ UNCHANGED <<decision, final_scene_name>>
       ELSE /\ LET d == propose_pack_scene_name(None, request.hints,
                                                TechnicalInfoWithFallback(request))
               IN /\ decision' = Some(d)
                  /\ final_scene_name' =
                         Some(FinalSceneName(d.chosen, config.append_no_tag_on_missing_group,
                                             request.hints.release_group))
            /\ pc' = "export"
    /\ UNCHANGED effects
    /\ UNCHANGED unitVars

(* the step after the export when the torrent is made whatever dry_run says *)
AfterExportIgnoringDryRun(dry_run) == "torrent"

(* the step after the export: radarr.rs lines 112-118, sonarr.rs lines
   343-349, 453-459, 693-699 *)
AfterExport(dry_run) == IF dry_run THEN "emitted" ELSE "torrent"

(* export_seed_structure of a movie or an episode file: a failure is logged
   and the function goes on (radarr.rs lines 99-109, sonarr.rs 679-691) *)
ExportSeed ==
    /\ pc = "export"
    /\ request.unit \in {"movie", "episode"}
    /\ \E ok \in BOOLEAN : effects' = Append(effects, [step |-> "export", ok |-> ok])
    /\ pc' = AfterExport(config.dry_run)
    /\ UNCHANGED <<decision, final_scene_name>>
    /\ UNCHANGED unitVars

(* export_seed_pack_structure of a pack: a failure ends the function
   (sonarr.rs lines 333-341, 439-451) *)
ExportSeedPack ==
    /\ pc = "export"
    /\ request.unit \in {"season_pack", "integrale"}
    /\ \E ok \in BOOLEAN :
           /\ effects' = Append(effects, [step |-> "export", ok |-> ok])
           /\ pc' = IF ok THEN AfterExport(config.dry_run) ELSE "emitted"
    /\ UNCHANGED <<decision, final_scene_name>>
    /\ UNCHANGED unitVars

(* create_torrent_for_seed_dir: radarr.rs lines 120-125, sonarr.rs 351-353 *)
CreateTorrent ==
    /\ pc = "torrent"
    /\ \E ok \in BOOLEAN :
           /\ effects' = Append(effects, [step |-> "torrent", ok |-> ok])
           /\ pc' = IF ok THEN "upload" ELSE "emitted"
    /\ UNCHANGED <<decision, final_scene_name>>
    /\ UNCHANGED unitVars

(* upload_movie_torrent / upload_episode_torrent: radarr.rs lines 126-139,
   sonarr.rs lines 354-370 *)
UploadTorrent ==
    /\ pc = "upload"
    /\ \E ok \in BOOLEAN : effects' = Append(effects, [step |-> "upload", ok |-> ok])
    /\ pc' = "emitted"
    /\ UNCHANGED <<decision, final_scene_name>>
    /\ UNCHANGED unitVars

NextUnits ==
    \/ SynthesizeMovie
    \/ SynthesizeEpisode
    \/ SynthesizePack
    \/ ExportSeed
    \/ ExportSeedPack
    \/ CreateTorrent
    \/ UploadTorrent

SpecUnits == InitUnits /\ [][NextUnits]_vars

----------------------------------------------------------------------------
(* Builder calls with empty fields: a pack tag without alphanumerics, a title
   that is empty, codecs that the probe reports as empty strings
   (map_video_codec and map_audio_codec return Some(format) for a format they
   do not know, the empty one included: mediainfo.rs lines 22-41) *)

EmptyOrNot(x) == {None, Some(<<>>), Some(x)}

PackTags == {<<"S", "0", "1">>, <<"!", "!">>, <<>>}

EmptyFieldHints(kind, title, pack_tag) ==
    CASE kind = "movie" -> RadarrHints(title, Some(2020), Some(QualityWebdl1080), Some(GroupGRP))
      [] kind = "episode" -> EpisodeHints(title, Some(2020), Some(1), <<2>>, <<>>, Some(QualityWebdl1080), None)
      [] kind = "pack" -> PackHints(title, None, pack_tag, Some(QualityWebdl1080), None)

EmptyFieldRequests ==
    {Request(k, None, EmptyFieldHints(k, t, p),
             [FullProbe EXCEPT !.video_codec = v, !.audio_codec = a], None) :
        k \in Kinds, t \in {TitleLeFilm, <<>>}, p \in PackTags, v \in EmptyOrNot(<<"x", "2", "6", "5">>),
        a \in EmptyOrNot(<<"E", "A", "C", "3">>)}

InitEmptyFields ==
    /\ pc = "propose"
    /\ request \in EmptyFieldRequests
    /\ decision = None
    /\ previous = None
    /\ final_scene_name = None
    /\ effects = <<>>
    /\ PipelineIdle

SpecEmptyFields == InitEmptyFields /\ [][NextBuilder]_vars

----------------------------------------------------------------------------
(* Vocabulary of the properties *)

Classified == pc \in {"season_packs", "integrale", "per_episode", "done"}
FilesMapped == pc \in {"classify"} \/ Classified
SeasonPacksDone == pc \in {"integrale", "per_episode", "done"}
IntegraleDone == pc \in {"per_episode", "done"}
Done == pc = "done"

(* every season number the properties speak of *)
AllSeasons == Seasons \cup {SeasonTooLarge} \cup complete_seasons \cup incomplete_seasons
              \cup DOMAIN season_to_files

EpisodesOfSeason(s) == {i \in DOMAIN episodes : episodes[i].season_number = s}

(* every episode of season s is unmonitored or has a file *)
SeasonSatisfied(s) ==
    \A i \in EpisodesOfSeason(s) : ~episodes[i].monitored \/ episodes[i].has_file

(* the paths that no entry of sonarr.path_mappings is a prefix of *)
UnmatchedPaths ==
    {p \in FilePaths :
        \A k \in DOMAIN PathMappings :
            ~StartsWith(p, TrimEndMatches(PathMappings[k].sonarr_root, "/"))}

Resolvable(f) == f.path \notin UnmatchedPaths

(* the input files that resolve locally and map to exactly the season s *)
HasMappedFile(s) ==
    \E i \in DOMAIN episode_files :
        /\ Resolvable(episode_files[i])
        /\ SeasonsInFile(episode_files[i], episode_by_id) = {s}

CallsOfKind(k) == {i \in DOMAIN calls : calls[i].kind = k}
SeasonPackCalls(s) ==
    {i \in CallsOfKind("season_pack") : calls[i].for_season = Some(s)}
EpisodeCallsFor(s, p) ==
    {i \in CallsOfKind("episode") :
        calls[i].for_season = Some(s) /\ calls[i].files[1].path = p}

----------------------------------------------------------------------------
(* C1 as stated: every season number >= 1 with an episode record is in exactly
   one of complete / incomplete, complete iff every episode is unmonitored or has
   a file; any other season number is in neither set. *)
C1_AsStated ==
    Classified =>
        \A s \in AllSeasons :
            IF s >= 1 /\ EpisodesOfSeason(s) /= {}
            THEN /\ (s \in complete_seasons) = SeasonSatisfied(s)
                 /\ (s \in incomplete_seasons) = ~SeasonSatisfied(s)
            ELSE s \notin complete_seasons /\ s \notin incomplete_seasons

(* C1 amended: every season number in 1..65535 with an episode record is in
   exactly one of complete / incomplete, complete iff every episode of the season
   is unmonitored or has a file; a season number without episode records, season
   0 and a season number above 65535 are in neither set. *)
C1_Classification ==
    Classified =>
        \A s \in AllSeasons :
            IF s >= 1 /\ s <= U16Max /\ EpisodesOfSeason(s) /= {}
            THEN /\ (s \in complete_seasons) = SeasonSatisfied(s)
                 /\ (s \in incomplete_seasons) = ~SeasonSatisfied(s)
            ELSE s \notin complete_seasons /\ s \notin incomplete_seasons

C1_Witness ==
    /\ Done
    /\ complete_seasons /= {}
    /\ incomplete_seasons /= {}
    /\ \E s \in complete_seasons : \E i \in EpisodesOfSeason(s) : ~episodes[i].has_file

----------------------------------------------------------------------------
(* C2: no season has both a season-pack call and per-episode calls, and no pack
   call (season pack or integrale) comes after a per-episode call. *)
C2_PackBeforeEpisodes ==
    /\ \A i \in CallsOfKind("season_pack") : \A j \in CallsOfKind("episode") :
           calls[i].for_season /= calls[j].for_season
    /\ \A i \in CallsOfKind("episode") :
           \A j \in CallsOfKind("season_pack") \cup CallsOfKind("integrale") : j < i

C2_Witness ==
    /\ Done
    /\ CallsOfKind("season_pack") /= {}
    /\ CallsOfKind("episode") /= {}
    /\ ~config.only_complete_seasons \/ incomplete_seasons /= {}

----------------------------------------------------------------------------
(* C4 as stated: the eligible seasons are the complete ones, or complete and
   incomplete ones when only_complete_seasons is false; every eligible season
   with a file mapped to it gets exactly one season-pack call with tag S##, and
   no other season gets one. *)
EligibleSeasons ==
    IF config.only_complete_seasons THEN complete_seasons
    ELSE complete_seasons \cup incomplete_seasons

C4_AsStated ==
    SeasonPacksDone =>
        /\ pack_seasons = EligibleSeasons
        /\ \A s \in AllSeasons :
               Cardinality(SeasonPackCalls(s)) =
                   IF s \in EligibleSeasons /\ HasMappedFile(s) THEN 1 ELSE 0
        /\ \A i \in CallsOfKind("season_pack") :
               calls[i].pack_tag = <<"S", Unwrap(calls[i].for_season)>>

(* C4 amended: as stated when media.seed_path is configured; without a seed
   path no season-pack call is made at all. *)
C4_SeasonPackCalls ==
    SeasonPacksDone =>
        /\ pack_seasons = EligibleSeasons
        /\ \A s \in AllSeasons :
               Cardinality(SeasonPackCalls(s)) =
                   IF config.seed_path_set /\ s \in EligibleSeasons /\ HasMappedFile(s)
                   THEN 1 ELSE 0
        /\ \A i \in CallsOfKind("season_pack") :
               calls[i].pack_tag = <<"S", Unwrap(calls[i].for_season)>>

C4_Witness ==
    /\ Done
    /\ ~config.only_complete_seasons
    /\ \E s \in incomplete_seasons : SeasonPackCalls(s) /= {}
    /\ \E s \in EligibleSeasons : ~HasMappedFile(s)

----------------------------------------------------------------------------
(* some season that the classifier admits (a number in 1..65535) has an episode *)
HasSeasonWithEpisodes ==
    \E i \in DOMAIN episodes :
        episodes[i].season_number >= 1 /\ episodes[i].season_number <= U16Max

(* C5 as stated: the series is series-complete iff some season has an episode
   record and no season is incomplete; exactly one integrale call is made when
   create_integrale_pack_if_complete is set and the series is series-complete,
   none otherwise. *)
C5_AsStated ==
    /\ Classified => series_complete = (HasSeasonWithEpisodes /\ incomplete_seasons = {})
    /\ IntegraleDone =>
           Cardinality(CallsOfKind("integrale")) =
               IF config.create_integrale_pack_if_complete /\ series_complete
               THEN 1 ELSE 0

(* C5 amended: the series is series-complete iff some season has an episode
   record and no season is incomplete; exactly one integrale
   call is made when create_integrale_pack_if_complete is set, the series is
   series-complete, media.seed_path is configured and at least one episode file
   resolves to a local path; none otherwise. *)
C5_Integrale ==
    /\ Classified => series_complete = (HasSeasonWithEpisodes /\ incomplete_seasons = {})
    /\ IntegraleDone =>
           Cardinality(CallsOfKind("integrale")) =
               IF /\ config.create_integrale_pack_if_complete
                  /\ series_complete
                  /\ config.seed_path_set
                  /\ \E i \in DOMAIN episode_files : Resolvable(episode_files[i])
               THEN 1 ELSE 0

C5_Witness ==
    /\ Done
    /\ CallsOfKind("integrale") /= {}
    /\ \E i \in DOMAIN episode_files : ~Resolvable(episode_files[i])

----------------------------------------------------------------------------
(* Vocabulary of the properties about files *)

InSeasonList(f, s) ==
    s \in DOMAIN season_to_files /\ f \in Range(season_to_files[s])

MultiSeason(f) == Cardinality(SeasonsInFile(f, episode_by_id)) > 1

(* some episode id of the file is the id of an episode record *)
HasResolvableEpisode(f) ==
    \E k \in DOMAIN f.episode_ids : f.episode_ids[k] \in DOMAIN episode_by_id

(* the first record with path p in a list of files *)
FirstWithPath(files, p) ==
    files[CHOOSE k \in DOMAIN files :
              files[k].path = p /\ \A j \in 1..(k - 1) : files[j].path /= p]

(* the seasons left to the per-episode fallback *)
FallbackSeasons ==
    IF config.per_episode_for_incomplete_seasons
    THEN (incomplete_seasons \ pack_seasons) \cap DOMAIN season_to_files
    ELSE {}

----------------------------------------------------------------------------
(* C3 as stated: with the per-episode fallback, for an incomplete season without
   a season pack exactly one episode call is made per distinct path among the
   files mapped to the season that have a resolvable episode id, and none for a
   file without one; no episode call is made anywhere else. *)
C3_AsStated ==
    Done =>
        \A s \in AllSeasons : \A p \in FilePaths :
            Cardinality(EpisodeCallsFor(s, p)) =
                IF /\ s \in FallbackSeasons
                   /\ \E k \in DOMAIN season_to_files[s] :
                          /\ season_to_files[s][k].path = p
                          /\ HasResolvableEpisode(season_to_files[s][k])
                THEN 1 ELSE 0

(* C3 amended: with the per-episode fallback, for an incomplete season without
   a season pack exactly one episode call is made per distinct path whose first
   file record in the season's list has a non-empty episode-id list (whether or
   not the ids are those of known episodes), the call being made for that
   record; no call is made for a path whose first record has no episode ids,
   and none anywhere else. *)
C3_EpisodeCalls ==
    Done =>
        /\ \A s \in AllSeasons : \A p \in FilePaths :
               Cardinality(EpisodeCallsFor(s, p)) =
                   IF /\ s \in FallbackSeasons
                      /\ \E k \in DOMAIN season_to_files[s] : season_to_files[s][k].path = p
                      /\ FirstWithPath(season_to_files[s], p).episode_ids /= <<>>
                   THEN 1 ELSE 0
        /\ \A i \in CallsOfKind("episode") :
               LET s == Unwrap(calls[i].for_season)
               IN /\ s \in FallbackSeasons
                  /\ calls[i].files =
                         <<FirstWithPath(season_to_files[s], calls[i].files[1].path)>>

C3_Witness ==
    /\ Done
    /\ CallsOfKind("episode") /= {}
    /\ \E s \in FallbackSeasons :
           \E j, k \in DOMAIN season_to_files[s] :
               /\ j /= k
               /\ season_to_files[s][j].path = season_to_files[s][k].path
               /\ season_to_files[s][k].episode_ids = <<>>
    /\ \E i \in DOMAIN episodes : episodes[i].monitored /\ ~episodes[i].has_file

----------------------------------------------------------------------------
(* C6: a file with an explicit season number in 1..65535 is mapped to that
   season alone, whatever the seasons of its episode identifiers (it is in that
   season's file list and in no other season's list), and a file is in a
   season's file list only if it maps to exactly one season. *)
C6_AsStated ==
    FilesMapped =>
        /\ \A i \in DOMAIN episode_files :
               LET f == episode_files[i]
               IN (Resolvable(f) /\ ExplicitSeasons(f) /= {}) =>
                      /\ InSeasonList(f, Unwrap(f.season_number))
                      /\ \A s \in DOMAIN season_to_files :
                             s /= Unwrap(f.season_number) => ~InSeasonList(f, s)
        /\ \A s \in DOMAIN season_to_files : \A f \in Range(season_to_files[s]) :
               SeasonsInFile(f, episode_by_id) = {s}

----------------------------------------------------------------------------
(* C7: a file whose path no mapping matches is counted as skipped and is in no
   season's file list, not in the list of the integrale and in no synthesis
   call; the files that do resolve are all kept, in order, in the list of the
   integrale and in the list of their season. *)
C7_UnmappedFiles ==
    /\ FilesMapped =>
           /\ unmapped_episode_files =
                  Cardinality({i \in DOMAIN episode_files : ~Resolvable(episode_files[i])})
           /\ all_mapped_files = SelectSeq(episode_files, Resolvable)
           /\ \A s \in AllSeasons :
                  (IF s \in DOMAIN season_to_files THEN season_to_files[s] ELSE <<>>) =
                      SelectSeq(episode_files,
                                LAMBDA f : Resolvable(f)
                                           /\ SeasonsInFile(f, episode_by_id) = {s})
    /\ \A i \in DOMAIN calls : \A f \in Range(calls[i].files) : Resolvable(f)

C7_Witness ==
    /\ Done
    /\ unmapped_episode_files > 0
    /\ calls /= <<>>

----------------------------------------------------------------------------
(* C8: a resolvable file that maps to more than one season is in no season
   pack's file list and in no per-episode call, and is in the file list and the
   path list of every integrale call. *)
C8_MultiSeasonFiles ==
    \A i \in DOMAIN calls :
        IF calls[i].kind = "integrale"
        THEN \A k \in DOMAIN episode_files :
                 (Resolvable(episode_files[k]) /\ MultiSeason(episode_files[k])) =>
                     /\ episode_files[k] \in Range(calls[i].files)
                     /\ Unwrap(translate_episode_path(episode_files[k], config))
                            \in Range(calls[i].src_videos)
        ELSE \A f \in Range(calls[i].files) : ~MultiSeason(f)

C8_Witness ==
    /\ Done
    /\ \E i \in CallsOfKind("integrale") : \E f \in Range(calls[i].files) : MultiSeason(f)
    /\ CallsOfKind("season_pack") /= {}

----------------------------------------------------------------------------
(* a file of specials only: no explicit season above 0, and every episode id is
   that of a season-0 episode *)
OnlySpecials(f) ==
    /\ f.season_number \in {None, Some(0)}
    /\ f.episode_ids /= <<>>
    /\ \A k \in DOMAIN f.episode_ids :
           /\ f.episode_ids[k] \in DOMAIN episode_by_id
           /\ episode_by_id[f.episode_ids[k]].season_number = 0

(* C9: no season pack is made for season 0, and a file that belongs only to
   season-0 episodes is in the file list of no pack, season pack or integrale. *)
C9_AsStated ==
    /\ SeasonPackCalls(0) = {}
    /\ \A i \in CallsOfKind("season_pack") \cup CallsOfKind("integrale") :
           \A f \in Range(calls[i].files) : ~OnlySpecials(f)

----------------------------------------------------------------------------
(* C10: a pack (season or integrale) carries a release group only if every
   file of the pack has that release group. *)
C10_AsStated ==
    \A i \in CallsOfKind("season_pack") \cup CallsOfKind("integrale") :
        IsSome(calls[i].release_group) =>
            \A f \in Range(calls[i].files) : f.release_group = calls[i].release_group

----------------------------------------------------------------------------
(* Vocabulary of the properties about what a pack aggregates *)

PackCalls == CallsOfKind("season_pack") \cup CallsOfKind("integrale")

(* the local path of the first file of the list that resolves *)
FirstResolvablePath(files) ==
    Unwrap(translate_episode_path(
        files[CHOOSE k \in DOMAIN files :
                  /\ Resolvable(files[k])
                  /\ \A j \in 1..(k - 1) : ~Resolvable(files[j])], config))

(* the quality of the first file of the list for which Q holds, if any *)
FirstQuality(files, Q(_)) ==
    IF \E k \in DOMAIN files : Q(files[k])
    THEN files[CHOOSE k \in DOMAIN files :
                   Q(files[k]) /\ \A j \in 1..(k - 1) : ~Q(files[j])].quality
    ELSE None

HasQuality(f) == IsSome(f.quality)

HasNonEmptyQuality(f) == IsSome(f.quality) /\ Unwrap(f.quality) /= ""

(* the path list holds every resolvable path of the files, each once *)
PathListExact(c) ==
    /\ \A j, k \in DOMAIN c.src_videos : j /= k => c.src_videos[j] /= c.src_videos[k]
    /\ Range(c.src_videos) =
           {Unwrap(translate_episode_path(f, config)) :
               f \in {g \in Range(c.files) : Resolvable(g)}}

(* C11 as stated: for a pack the file probed is the first resolvable file of the
   contributing files in their order, the quality is the first non-empty quality
   name in that order, and the path list holds every resolvable path once. *)
C11_AsStated ==
    \A i \in PackCalls :
        /\ calls[i].tech_path = FirstResolvablePath(calls[i].files)
        /\ calls[i].quality = FirstQuality(calls[i].files, HasNonEmptyQuality)
        /\ PathListExact(calls[i])

(* C11 amended: for a pack the file probed is the one whose local path is the
   least, in the order of paths, among the resolvable paths of the contributing
   files; the quality is the first quality name present (an empty name
   included) in the order of the files; and the path list holds every
   resolvable path once, in ascending order. *)
C11_PackAggregation ==
    \A i \in PackCalls :
        /\ calls[i].tech_path \in Range(calls[i].src_videos)
        /\ \A q \in Range(calls[i].src_videos) : ~PathLess(q, calls[i].tech_path)
        /\ calls[i].quality = FirstQuality(calls[i].files, HasQuality)
        /\ PathListExact(calls[i])
        /\ \A j, k \in DOMAIN calls[i].src_videos :
               j < k => PathLess(calls[i].src_videos[j], calls[i].src_videos[k])

C11_Witness ==
    \E i \in PackCalls :
        /\ Len(calls[i].files) = 2
        /\ Len(calls[i].src_videos) = 2
        /\ FirstResolvablePath(calls[i].files) = calls[i].src_videos[2]
        /\ calls[i].files[1].quality = None
        /\ calls[i].files[2].quality = Some("HDTV-720p")

----------------------------------------------------------------------------
(* Vocabulary of the properties about the Name Builder *)

Returned == pc = "proposed"

(* the name returned, the parts it was assembled from, the technical info given *)
Chosen == Unwrap(decision).chosen

Parts == Unwrap(decision).parts

Tech == TechnicalInfoOf(request.probe)

(* the name without the release-group suffix, and its dot-segments *)
NameBody ==
    IF IsSome(Parts.release_group)
    THEN SubSeq(Chosen, 1, Len(Chosen) - Len(Unwrap(Parts.release_group)) - 1)
    ELSE Chosen

DotSegments == Range(Split(NameBody, ".", 1, <<>>))

SourceTags == {<<"W", "E", "B">>, <<"B", "l", "u", "R", "a", "y">>}

----------------------------------------------------------------------------
(* C12: in every Builder call a resolution of the technical info is the
   resolution of the name; when the quality name implies another resolution
   the name has no source tag; otherwise the source tag inferred from the
   quality name is kept; without a technical resolution the resolution inferred
   from the quality name is used. *)
C12_ResolutionAndSource ==
    Returned =>
        LET inferred_res == infer_resolution_from_quality(request.hints.quality)
            inferred_source == infer_source_from_quality(request.hints.quality)
            differ == IsSome(Tech.resolution) /\ IsSome(inferred_res)
                      /\ Tech.resolution /= inferred_res
        IN /\ IsSome(Tech.resolution) =>
                  Parts.resolution = Tech.resolution /\ Unwrap(Tech.resolution) \in DotSegments
           /\ ~IsSome(Tech.resolution) => Parts.resolution = inferred_res
           /\ (~IsSome(Tech.resolution) /\ IsSome(inferred_res)) =>
                  Unwrap(inferred_res) \in DotSegments
           /\ differ => Parts.source = None /\ DotSegments \cap SourceTags = {}
           /\ ~differ => /\ Parts.source = inferred_source
                         /\ DotSegments \cap SourceTags =
                                (IF IsSome(inferred_source) THEN {Unwrap(inferred_source)}
                                 ELSE {})

C12_Witness ==
    /\ Returned
    /\ Tech.resolution = Some(<<"1", "0", "8", "0", "p">>)
    /\ infer_resolution_from_quality(request.hints.quality) = Some(<<"7", "2", "0", "p">>)
    /\ infer_source_from_quality(request.hints.quality) = Some(<<"B", "l", "u", "R", "a", "y">>)
    /\ Parts.source = None

----------------------------------------------------------------------------
(* the name has the text as one or more whole dot-segments of its body *)
HasSegment(text) == Contains(<<".">> \o NameBody \o <<".">>, <<".">> \o text \o <<".">>)

LanguageTags == {<<"M", "U", "L", "T", "i", ".", "V", "F">>, <<"V", "F">>, <<"V", "O", "S", "T", "F", "R">>}

(* C13: the language tag of a built name is decided by the set of audio
   languages alone: more than one language gives MULTi.VF, the set {fr} gives
   VF, the set {en} gives VOSTFR, any other single language and the empty set
   give no language tag; the name has the tag as a segment, and two calls with
   the same set of languages get the same tag. *)
C13_LanguageTag ==
    Returned =>
        LET langs == Tech.audio_languages
            expected == IF Cardinality(langs) > 1 THEN Some(<<"M", "U", "L", "T", "i", ".", "V", "F">>)
                        ELSE IF langs = {<<"f", "r">>} THEN Some(<<"V", "F">>)
                        ELSE IF langs = {<<"e", "n">>} THEN Some(<<"V", "O", "S", "T", "F", "R">>)
                        ELSE None
        IN /\ Parts.language_tag = expected
           /\ IF IsSome(expected) THEN HasSegment(Unwrap(expected))
              ELSE \A t \in LanguageTags : ~HasSegment(t)
           /\ (IsSome(previous)
               /\ TechnicalInfoOf(Unwrap(previous).request.probe).audio_languages = langs)
                  => Unwrap(previous).decision.parts.language_tag = Parts.language_tag

C13_Witness ==
    /\ Returned
    /\ IsSome(previous)
    /\ request.probe.audio_track_languages = <<<<"e", "n">>, <<"f", "r">>>>
    /\ Unwrap(previous).request.probe.audio_track_languages = <<<<"f", "r">>, <<"e", "n">>>>
    /\ Parts.language_tag = Some(<<"M", "U", "L", "T", "i", ".", "V", "F">>)

----------------------------------------------------------------------------
(* the tag of the numbers of a set in ascending order, each zero-padded to at
   least w digits *)
TokensOf(numbers, w) == EpisodeTokens(Ascending(numbers), w)

(* the episode tag C14 describes, for the hints of an episode call *)
DescribedEpisodeTag(hints) ==
    IF hints.absolute_episode_numbers /= <<>>
    THEN Some(TokensOf(Range(hints.absolute_episode_numbers), 3))
    ELSE IF IsSome(hints.season_number) /\ hints.episode_numbers /= <<>>
    THEN Some(<<"S">> \o FormatPadded(Unwrap(hints.season_number), 2)
              \o TokensOf(Range(hints.episode_numbers), 2))
    ELSE None

EpisodeReturned == Returned /\ request.kind = "episode"

(* C14 as stated: with an absolute number the episode tag is the E### tokens,
   of 3 digits each, of the absolute numbers in ascending order without
   duplicates, whatever the season and episode numbers; else with a season and
   an episode number it is S## and the E## tokens, of 2 digits each, of the
   episode numbers in ascending order without duplicates; else there is none. *)
C14_AsStated ==
    EpisodeReturned =>
        /\ Parts.episode_tag = DescribedEpisodeTag(request.hints)
        /\ IsSome(Parts.episode_tag) =>
               Len(Unwrap(Parts.episode_tag)) =
                   IF request.hints.absolute_episode_numbers /= <<>>
                   THEN 4 * Cardinality(Range(request.hints.absolute_episode_numbers))
                   ELSE 3 + 3 * Cardinality(Range(request.hints.episode_numbers))

(* C14 amended: as stated, but each number is zero-padded to at least 3
   digits (absolute) or at least 2 digits (season, episode): a larger number
   is written with all its digits. *)
C14_EpisodeTag ==
    EpisodeReturned =>
        /\ Parts.episode_tag = DescribedEpisodeTag(request.hints)
        /\ IF IsSome(Parts.episode_tag) THEN HasSegment(Unwrap(Parts.episode_tag))
           ELSE \A n \in EpisodeNumbers \cup AbsoluteNumbers :
                    ~Contains(NameBody, <<"E">> \o ToDigits(n))

C14_Witness ==
    /\ EpisodeReturned
    /\ request.hints.absolute_episode_numbers = <<1000, 5>>
    /\ IsSome(request.hints.season_number)
    /\ request.hints.episode_numbers /= <<>>
    /\ Parts.episode_tag = Some(<<"E", "0", "0", "5", "E", "1", "0", "0", "0">>)

----------------------------------------------------------------------------
(* the place of a text that is one or more whole dot-segments of the body of
   the name: the index of its first character, 0 when it is not there *)
SegmentIndex(text) ==
    LET hay == <<".">> \o NameBody \o <<".">>
        pat == <<".">> \o text \o <<".">>
        places == {i \in 1..(Len(hay) - Len(pat) + 1) : SubSeq(hay, i, i + Len(pat) - 1) = pat}
    IN IF text = <<>> \/ places = {} THEN 0
       ELSE CHOOSE i \in places : \A j \in places : i <= j

OptSet(o) == IF IsSome(o) THEN {Unwrap(o)} ELSE {}

(* the texts of the segments that are present, rank by rank in the order C15 gives *)
RankedTexts ==
    << IF Parts.title_tokens /= <<>> THEN {Join(Parts.title_tokens, <<".">>)} ELSE {},
       IF IsSome(Parts.year) THEN {ToDigits(Unwrap(Parts.year))} ELSE {},
       OptSet(Parts.episode_tag),
       OptSet(Parts.language_tag),
       OptSet(Parts.resolution),
       OptSet(Parts.source),
       Range(extras_to_vec(Parts)),
       OptSet(Parts.audio_codec),
       OptSet(Parts.audio_channels),
       OptSet(Parts.video_codec) >>

EndsWith(s, suffix) ==
    Len(suffix) <= Len(s) /\ SubSeq(s, Len(s) - Len(suffix) + 1, Len(s)) = suffix

(* C15: in every name returned the segments that are present are whole
   dot-segments in the order title, year, episode tag, language tag,
   resolution, source, extras, audio codec, audio channels, video codec; a
   video codec is the last dot-segment of the body of the name; a release
   group follows as -GROUP with no dot before the hyphen. *)
C15_SegmentOrder ==
    Returned =>
        LET ranked == RankedTexts
            index == [t \in UNION Range(ranked) |-> SegmentIndex(t)]
        IN /\ \A t \in DOMAIN index : index[t] > 0
           /\ \A i, j \in DOMAIN ranked :
                  i < j => \A a \in ranked[i] : \A b \in ranked[j] :
                               index[a] + Len(a) <= index[b]
           /\ IsSome(Parts.video_codec) =>
                  EndsWith(<<".">> \o NameBody, <<".">> \o Unwrap(Parts.video_codec))
           /\ IsSome(Parts.release_group) =>
                  /\ EndsWith(Chosen, <<"-">> \o Unwrap(Parts.release_group))
                  /\ ~EndsWith(NameBody, <<".">>)

C15_Witness ==
    /\ Returned
    /\ request.kind = "pack"
    /\ \A i \in DOMAIN RankedTexts : RankedTexts[i] /= {}
    /\ IsSome(Parts.release_group)

----------------------------------------------------------------------------
(* the salvage keywords an original name holds, by the markers of each keyword
   (lower-case, one of the alternatives with all its words) *)
KeywordMarkers ==
    { [tag |-> <<"I", "M", "A", "X">>, any |-> {{<<"i", "m", "a", "x">>}}],
      [tag |-> <<"H", "D", "L", "i", "g", "h", "t">>, any |-> {{<<"h", "d", "l", "i", "g", "h", "t">>}}],
      [tag |-> <<"4", "K", "L", "i", "g", "h", "t">>, any |-> {{<<"4", "k", "l", "i", "g", "h", "t">>}, {<<"4", "k", " ", "l", "i", "g", "h", "t">>}}],
      [tag |-> <<"U", "n", "r", "a", "t", "e", "d">>, any |-> {{<<"u", "n", "r", "a", "t", "e", "d">>}}],
      [tag |-> <<"E", "x", "t", "e", "n", "d", "e", "d">>, any |-> {{<<"e", "x", "t", "e", "n", "d", "e", "d">>}}],
      [tag |-> <<"R", "e", "m", "a", "s", "t", "e", "r", "e", "d">>, any |-> {{<<"r", "e", "m", "a", "s", "t", "e", "r", "e", "d">>}}],
      [tag |-> <<"D", "i", "r", "e", "c", "t", "o", "r", "s", ".", "C", "u", "t">>, any |-> {{<<"d", "i", "r", "e", "c", "t", "o", "r">>, <<"c", "u", "t">>}}],
      [tag |-> <<"T", "h", "e", "a", "t", "r", "i", "c", "a", "l", ".", "C", "u", "t">>, any |-> {{<<"t", "h", "e", "a", "t", "r", "i", "c", "a", "l", " ", "c", "u", "t">>}}],
      [tag |-> <<"P", "r", "o", "p", "e", "r">>, any |-> {{<<"p", "r", "o", "p", "e", "r">>}}],
      [tag |-> <<"R", "e", "p", "a", "c", "k">>, any |-> {{<<"r", "e", "p", "a", "c", "k">>}}] }

KeywordsIn(original) ==
    IF ~IsSome(original) THEN {}
    ELSE {k.tag : k \in {m \in KeywordMarkers :
                            \E words \in m.any :
                                \A w \in words :
                                    Contains(ToAsciiLowercase(Unwrap(original)), w)}}

(* the extra tags a call asks for: those of the probe and the salvaged ones *)
RequestedExtras(r) ==
    (IF r.probe.hdr THEN {<<"H", "D", "R">>} ELSE {})
    \cup (IF r.probe.dv THEN {<<"D", "V">>} ELSE {})
    \cup OptSet(r.probe.bit_depth)
    \cup (IF r.probe.has_vfi THEN {<<"V", "F", "I">>} ELSE {})
    \cup KeywordsIn(r.original)

(* how many times a text is one or more whole dot-segments of the body of the name *)
Occurrences(text) ==
    LET hay == <<".">> \o NameBody \o <<".">>
        pat == <<".">> \o text \o <<".">>
    IN Cardinality({i \in 1..(Len(hay) - Len(pat) + 1) :
                       SubSeq(hay, i, i + Len(pat) - 1) = pat})

(* C16: the extras of a built name are the tags asked for, each once, in the
   ascending order of the tags as strings, whatever the order in which the
   tags were found: two calls with the same tags list them the same way. *)
C16_Extras ==
    Returned =>
        LET extras == RequestedExtras(request)
            index == [t \in extras |-> SegmentIndex(t)]
        IN /\ \A t \in extras : Occurrences(t) = 1
           /\ \A a, b \in extras : index[a] < index[b] <=> StringLess(a, b)
           /\ Range(extras_to_vec(Parts)) = extras
           /\ Len(extras_to_vec(Parts)) = Cardinality(extras)
           /\ (IsSome(previous) /\ RequestedExtras(Unwrap(previous).request) = extras)
                  => extras_to_vec(Unwrap(previous).decision.parts) = extras_to_vec(Parts)

C16_Witness ==
    /\ Returned
    /\ IsSome(previous)
    /\ Unwrap(previous).request.original = Some(<<"F", "i", "l", "m", " ", "I", "M", "A", "X", " ", "E", "x", "t", "e", "n", "d", "e", "d">>)
    /\ request.original = Some(<<"F", "i", "l", "m", ".", "e", "x", "t", "e", "n", "d", "e", "d", ".", "i", "m", "a", "x">>)
    /\ extras_to_vec(Parts) = <<<<"1", "0", "b", "i", "t">>, <<"D", "V">>, <<"E", "x", "t", "e", "n", "d", "e", "d">>, <<"H", "D", "R">>, <<"I", "M", "A", "X">>, <<"V", "F", "I">>>>

----------------------------------------------------------------------------
(* C17: the release group written into a built name is the release group of
   the hints without its characters that are not ASCII letters or digits, after
   a hyphen at the end of the name; when there is no release group or nothing
   remains of it, the name has no hyphen and no group suffix. *)
C17_ReleaseGroup ==
    Returned =>
        LET group == request.hints.release_group
            kept == IF IsSome(group)
                    THEN [i \in {j \in DOMAIN Unwrap(group) :
                                    IsAsciiAlphanumeric(Unwrap(group)[j])}
                             |-> Unwrap(group)[i]]
                    ELSE <<>>
            written == IF IsSome(Parts.release_group) THEN Unwrap(Parts.release_group)
                       ELSE <<>>
        IN /\ Len(written) = Cardinality(DOMAIN kept)
           /\ \A i \in DOMAIN written :
                  \E j \in DOMAIN kept :
                      /\ Cardinality({k \in DOMAIN kept : k <= j}) = i
                      /\ written[i] = kept[j]
           /\ IF written /= <<>>
              THEN /\ EndsWith(Chosen, <<"-">> \o written)
                   /\ ~Contains(NameBody, <<"-">>)
              ELSE /\ Parts.release_group = None
                   /\ ~Contains(Chosen, <<"-">>)

C17_Witness ==
    /\ Returned
    /\ request.hints.release_group = Some(<<"-", "!">>)
    /\ ~Contains(Chosen, <<"-">>)
    /\ EndsWith(Chosen, <<"x", "2", "6", "5">>)

----------------------------------------------------------------------------
(* the set of language codes of the audio tracks of a probed file *)
TrackLanguageSet(probe) ==
    {LanguageCode(probe.audio_track_languages[i]) : i \in DOMAIN probe.audio_track_languages}

(* two calls of the same function with the same hints, the same original name
   and the same technical info, the languages taken as a set *)
SameInputs(r1, r2) ==
    /\ r1.kind = r2.kind
    /\ r1.hints = r2.hints
    /\ r1.original = r2.original
    /\ [r1.probe EXCEPT !.audio_track_languages = <<>>]
           = [r2.probe EXCEPT !.audio_track_languages = <<>>]
    /\ TrackLanguageSet(r1.probe) = TrackLanguageSet(r2.probe)

(* C18: two calls of the same propose function with the same hints, the same
   technical info and the same original name return the same name, whatever
   the order in which the languages were inserted. *)
C18_Deterministic ==
    (Returned /\ IsSome(previous) /\ SameInputs(Unwrap(previous).request, request))
        => Unwrap(previous).decision.chosen = Chosen

C18_Witness ==
    /\ Returned
    /\ IsSome(previous)
    /\ SameInputs(Unwrap(previous).request, request)
    /\ Unwrap(previous).request.probe.audio_track_languages = <<<<"e", "n">>, <<"f", "r">>>>
    /\ request.probe.audio_track_languages = <<<<"f", "r">>, <<"e", "n">>>>
    /\ Unwrap(previous).decision.chosen = Chosen

----------------------------------------------------------------------------
(* the issue list a movie call supplies with its prior validation *)
SuppliedIssues(r) ==
    IF IsSome(r.validation) THEN Unwrap(r.validation).issues ELSE <<>>

(* two movie calls that differ at most in the prior validation *)
SameButValidation(r1, r2) ==
    /\ r1.kind = "movie" /\ r2.kind = "movie"
    /\ r1.hints = r2.hints
    /\ r1.original = r2.original
    /\ r1.probe = r2.probe

(* C19: propose_scene_name always returns the reason Rebuilt, carrying exactly
   the issues of the validation supplied (none when no validation was
   supplied), and the name chosen does not depend on the validation being
   absent, valid or invalid. *)
C19_AlwaysRebuilt ==
    (Returned /\ request.kind = "movie") =>
        /\ Unwrap(decision).reason.kind = "Rebuilt"
        /\ Unwrap(decision).reason.issues = SuppliedIssues(request)
        /\ (IsSome(previous) /\ SameButValidation(Unwrap(previous).request, request))
               => Unwrap(previous).decision.chosen = Chosen

C19_Witness ==
    /\ Returned
    /\ request.kind = "movie"
    /\ IsSome(request.original)
    /\ IsSome(request.validation) /\ Unwrap(request.validation).valid
    /\ IsSome(previous)
    /\ SameButValidation(Unwrap(previous).request, request)
    /\ IsSome(Unwrap(previous).request.validation)
    /\ ~Unwrap(Unwrap(previous).request.validation).valid
    /\ Unwrap(previous).decision.reason.issues /= <<>>
    /\ Unwrap(decision).reason = [kind |-> "Rebuilt", issues |-> <<>>]
    /\ Chosen /= Unwrap(request.original)
    /\ Unwrap(previous).decision.chosen = Chosen

----------------------------------------------------------------------------
(* two calls of the same function with the same hints and the same probe *)
SameButOriginal(r1, r2) ==
    r1.kind = r2.kind /\ r1.hints = r2.hints /\ r1.probe = r2.probe

(* the quality name of the hints in lower case, empty when there is none *)
QualityLower(r) ==
    IF IsSome(r.hints.quality) THEN ToAsciiLowercase(Unwrap(r.hints.quality)) ELSE <<>>

(* the year of the hints of a call, whatever its kind *)
HintsYear(r) == IF r.kind = "episode" THEN r.hints.series_year ELSE r.hints.year

(* no year, resolution, source, codec or release group of OriginalPlain is in
   the name unless the hints or the probe of the call give the same value *)
NothingTypedFromOriginal ==
    /\ HintsYear(request) /= Some(2019) => ~HasSegment(<<"2", "0", "1", "9">>)
    /\ (request.probe.resolution /= Some(<<"7", "2", "0", "p">>) /\ ~Contains(QualityLower(request), <<"7", "2", "0">>))
           => ~HasSegment(<<"7", "2", "0", "p">>)
    /\ ~Contains(QualityLower(request), <<"b", "l", "u", "r", "a", "y">>) => ~HasSegment(<<"B", "l", "u", "R", "a", "y">>)
    /\ request.probe.video_codec /= Some(<<"x", "2", "6", "4">>) => ~HasSegment(<<"x", "2", "6", "4">>)
    /\ request.hints.release_group /= Some(<<"O", "L", "D">>) => ~EndsWith(Chosen, <<"-", "O", "L", "D">>)

(* C20: the original name acts on a built name only through the set of salvage
   keywords found in it: two calls with the same hints and technical info
   whose originals hold the same keywords return the same name, and no year,
   resolution, source, codec or release group of the original is in the name. *)
C20_OriginalOnlyKeywords ==
    Returned =>
        /\ (/\ IsSome(previous)
            /\ SameButOriginal(Unwrap(previous).request, request)
            /\ KeywordsIn(Unwrap(previous).request.original) = KeywordsIn(request.original))
               => Unwrap(previous).decision.chosen = Chosen
        /\ request.original = Some(OriginalPlain) => NothingTypedFromOriginal

C20_Witness ==
    /\ Returned
    /\ IsSome(previous)
    /\ SameButOriginal(Unwrap(previous).request, request)
    /\ Unwrap(previous).request.original = Some(<<"F", "i", "l", "m", " ", "I", "M", "A", "X", " ", "E", "x", "t", "e", "n", "d", "e", "d">>)
    /\ request.original = Some(<<"F", "i", "l", "m", ".", "e", "x", "t", "e", "n", "d", "e", "d", ".", "i", "m", "a", "x">>)
    /\ KeywordsIn(request.original) = {<<"I", "M", "A", "X">>, <<"E", "x", "t", "e", "n", "d", "e", "d">>}
    /\ HasSegment(<<"E", "x", "t", "e", "n", "d", "e", "d", ".", "I", "M", "A", "X">>)
    /\ Unwrap(previous).decision.chosen = Chosen

(* a call whose original has a year, a resolution, a source, a codec and a
   group, after a call with no original at all, and no source in the name *)
C20_WitnessPlain ==
    /\ Returned
    /\ IsSome(previous)
    /\ SameButOriginal(Unwrap(previous).request, request)
    /\ Unwrap(previous).request.original = None
    /\ request.original = Some(OriginalPlain)
    /\ ~IsSome(request.hints.quality)
    /\ SourceTags \cap DotSegments = {}
    /\ Unwrap(previous).decision.chosen = Chosen

----------------------------------------------------------------------------
(* the episode hints give an episode tag: absolute numbers, or a season number
   with at least one episode number *)
HasNumbering(h) ==
    \/ h.absolute_episode_numbers /= <<>>
    \/ IsSome(h.season_number) /\ h.episode_numbers /= <<>>

(* C21 as stated: in every Builder call exactly one of the year and the
   episode tag of the assembled parts is populated. *)
C21_AsStated ==
    Returned => (IsSome(Parts.year) /= IsSome(Parts.episode_tag))

(* C21: a movie call never has an episode tag and has the year of its hints;
   an episode call never has a year and has an episode tag exactly when its
   hints give a numbering; a pack call always has an episode tag and has the
   year of its hints as well.  So a pack with a year has both, a movie without
   a year and an episode without numbering have neither. *)
C21_YearAndEpisodeTag ==
    Returned =>
        /\ request.kind = "movie" =>
               ~IsSome(Parts.episode_tag) /\ Parts.year = request.hints.year
        /\ request.kind = "episode" =>
               ~IsSome(Parts.year) /\ (IsSome(Parts.episode_tag) <=> HasNumbering(request.hints))
        /\ request.kind = "pack" =>
               IsSome(Parts.episode_tag) /\ Parts.year = request.hints.year

C21_Witness ==
    /\ Returned
    /\ request.kind = "pack"
    /\ request.hints.year = Some(2020)
    /\ Parts.year = Some(2020)
    /\ Parts.episode_tag = Some(<<"S", "0", "1">>)
    /\ HasSegment(<<"2", "0", "2", "0", ".", "S", "0", "1">>)

(* a movie call without a year, an episode call without numbering *)
C21_WitnessNeither ==
    /\ Returned
    /\ request.kind \in {"movie", "episode"}
    /\ ~IsSome(Parts.year)
    /\ ~IsSome(Parts.episode_tag)

----------------------------------------------------------------------------
(* Vocabulary of the properties about the Validator *)

Validated == pc = "validated"

Result == Unwrap(decision)

TrimmedName == Trim(request.name)

(* the issues other than Empty, in the order in which they are reported *)
IssueOrder ==
    <<"IsUnknown", "MissingDots", "MissingYear", "MissingResolution", "MissingSource",
      "MissingVideoCodec">>

(* what each issue reports about a name that is not blank *)
IssueHolds(issue, trimmed) ==
    CASE issue = "IsUnknown" -> ToAsciiLowercase(trimmed) = <<"u", "n", "k", "n", "o", "w", "n">>
      [] issue = "MissingDots" -> ~looks_dot_separated(trimmed)
      [] issue = "MissingYear" -> ~IsYearMatch(trimmed)
      [] issue = "MissingResolution" -> ~IsWordMatch(trimmed, RESOLUTION_RE)
      [] issue = "MissingSource" -> ~IsWordMatch(trimmed, SOURCE_RE)
      [] issue = "MissingVideoCodec" -> ~IsWordMatch(trimmed, VIDEO_CODEC_RE)

(* s holds elements of IssueOrder, in that order, none of them twice *)
InIssueOrder(s) ==
    \A i, j \in DOMAIN s :
        i < j => \E a, b \in DOMAIN IssueOrder :
                     a < b /\ IssueOrder[a] = s[i] /\ IssueOrder[b] = s[j]

NameBad2 == <<"B", "o", "d", "i", "e", "s", " ", "B", "o", "d", "i", "e", "s", " ", "B", "o", "d", "i", "e", "s", " ", "(", "2", "0", "2", "2", ")", " ", "M", "U", "L", "T", "i", " ", "V", "F", "I", " ", "2", "1", "6", "0", "p", " ", "1", "0", "b", "i", "t", " ", "4", "K", "L", "i", "g", "h", "t", " ", "D", "V", " ", "H", "D", "R", " ", "B", "l", "u", "R", "a", "y", " ", "D", "D", "P", " ", "5", ".", "1", " ", "A", "t", "m", "o", "s", " ", "x", "2", "6", "5", "-", "Q", "T", "Z">>

(* C22: validate_scene_name reports valid exactly when it reports no issue; a
   blank name gets the single issue Empty; any other name gets each of
   IsUnknown, MissingDots (fewer than two dots), MissingYear,
   MissingResolution, MissingSource and MissingVideoCodec exactly when its
   own check fails, whatever the other checks say, at most once and in that
   order. *)
C22_Validation ==
    Validated =>
        /\ Result.valid <=> Result.issues = <<>>
        /\ TrimmedName = <<>> => Result.issues = <<"Empty">>
        /\ TrimmedName /= <<>> =>
               /\ \A issue \in Range(IssueOrder) :
                      issue \in Range(Result.issues) <=> IssueHolds(issue, TrimmedName)
               /\ Range(Result.issues) \subseteq Range(IssueOrder)
               /\ InIssueOrder(Result.issues)
        /\ request.name \in ValidExamples => Result.valid
        /\ request.name \in InvalidExamples => ~Result.valid
        /\ request.name = NameBad2 => Result.issues = <<"MissingDots">>

(* a name without dots, year, resolution, source and codec: five issues *)
C22_Witness ==
    /\ Validated
    /\ request.name = <<"F", "i", "l", "m">>
    /\ ~Result.valid
    /\ Result.issues = <<"MissingDots", "MissingYear", "MissingResolution", "MissingSource", "MissingVideoCodec">>

(* the space-separated name of the tests: MissingDots alone *)
C22_WitnessSpaces ==
    /\ Validated
    /\ request.name = NameBad2
    /\ Result.issues = <<"MissingDots">>

(* a blank name *)
C22_WitnessBlank ==
    /\ Validated
    /\ request.name = <<"<tab>", " ", "<newline>">>
    /\ Result = [valid |-> FALSE, issues |-> <<"Empty">>]

----------------------------------------------------------------------------
(* Vocabulary of the properties about the Tokenizer *)

Normalized == pc = "normalized"

Tokens == Unwrap(decision)

(* C23 as stated: the tokenizer is idempotent: normalizing what it returned
   returns it unchanged. *)
C23_AsStated ==
    Normalized => normalize_tokens_to_scene(Tokens) = Tokens

(* the alphanumeric runs of a text, the dropped symbols taken out, every other
   character a separator *)
RECURSIVE Runs(_, _, _)
Runs(s, i, cur) ==
    IF i > Len(s) THEN (IF cur = <<>> THEN <<>> ELSE <<cur>>)
    ELSE IF IsAlphanumeric(s[i]) THEN Runs(s, i + 1, Append(cur, s[i]))
    ELSE IF IsDropSymbol(s[i]) THEN Runs(s, i + 1, cur)
    ELSE (IF cur = <<>> THEN <<>> ELSE <<cur>>) \o Runs(s, i + 1, <<>>)

(* C24 as stated: the result keeps every alphanumeric character of the
   composed text in order, drops the symbols (c), (R), (TM), (P), and makes
   every other character a separator: the alphanumeric runs are joined by
   exactly one dot, and no dot leads, trails or follows another dot. *)
C24_AsStated ==
    Normalized =>
        /\ Tokens = Join(Runs(Nfc(request.text), 1, <<>>), <<".">>)
        /\ Tokens /= <<>> => Tokens[1] /= "." /\ Tokens[Len(Tokens)] /= "."
        /\ ~Contains(Tokens, <<".", ".">>)

----------------------------------------------------------------------------
(* Vocabulary of the properties about the emitted units *)

Named == IsSome(final_scene_name)

FinalName == Unwrap(final_scene_name)

NoTagSuffix == <<"-", "N", "o", "T", "a", "g">>

(* the release group of the hints as the Builder writes it, empty when there
   is none *)
SanitizedGroup ==
    IF IsSome(request.hints.release_group)
    THEN sanitize_release_group(Unwrap(request.hints.release_group))
    ELSE <<>>

(* C25 as stated: with append_no_tag_on_missing_group the final name of a
   movie, an episode or a pack ends with a hyphen and its sanitized release
   group, or with -NoTag; without the option nothing is appended to the name
   the Builder chose. *)
C25_AsStated ==
    Named =>
        /\ config.append_no_tag_on_missing_group =>
               \/ SanitizedGroup /= <<>> /\ EndsWith(FinalName, <<"-">> \o SanitizedGroup)
               \/ EndsWith(FinalName, NoTagSuffix)
        /\ ~config.append_no_tag_on_missing_group => FinalName = Chosen

----------------------------------------------------------------------------
Emitted == pc = "emitted"

(* the steps attempted so far, without their outcomes *)
StepsTaken == [i \in DOMAIN effects |-> effects[i].step]

(* C26: when torrent.dry_run is true, for a movie, an episode, a season pack
   and an integrale the seed export is still attempted (once, when a seed path
   is configured), but no torrent is ever created and no upload is ever
   attempted. *)
C26_DryRun ==
    config.dry_run =>
        /\ \A i \in DOMAIN effects : effects[i].step = "export"
        /\ (Emitted /\ IsSome(config.seed_path)) => StepsTaken = <<"export">>

C26_Witness ==
    /\ Emitted
    /\ config.dry_run
    /\ IsSome(config.seed_path)
    /\ request.unit = "season_pack"
    /\ effects = <<[step |-> "export", ok |-> TRUE]>>

(* C29 as stated: for every unit the steps run in the order export, torrent
   creation, upload, and a step is attempted only if the steps before it
   succeeded. *)
C29_AsStated ==
    /\ \A i \in DOMAIN effects :
           /\ effects[i].step = "torrent" => i = 2 /\ effects[1] = [step |-> "export", ok |-> TRUE]
           /\ effects[i].step = "upload" => i = 3 /\ effects[2] = [step |-> "torrent", ok |-> TRUE]
           /\ effects[i].step = "export" => i = 1

----------------------------------------------------------------------------
Synthesized == IsSome(decision)

(* the resolution of the technical info was missing and the fallback filled it
   from the quality name *)
FilledByFallback ==
    /\ ~IsSome(request.probe.resolution)
    /\ IsSome(TechnicalInfoWithFallback(request).resolution)

(* C28 as stated: when apply_resolution_fallback fills a missing resolution
   from the quality name, the Builder infers the same resolution from that
   quality name, so the mismatch rule does not remove the source tag. *)
C28_AsStated ==
    (Synthesized /\ FilledByFallback) =>
        /\ infer_resolution_from_quality(request.hints.quality)
               = TechnicalInfoWithFallback(request).resolution
        /\ Parts.source = infer_source_from_quality(request.hints.quality)

----------------------------------------------------------------------------
(* C27 as stated: a name returned by propose_scene_name,
   propose_episode_scene_name or propose_pack_scene_name has no empty
   dot-segment: it does not start or end with a dot and holds no two dots in a
   row, whatever the hints and the technical info, a pack tag without any
   alphanumeric character and technical fields that are empty strings
   included. *)
C27_AsStated ==
    (Returned /\ Chosen /= <<>>) =>
        /\ Chosen[1] /= "."
        /\ Chosen[Len(Chosen)] /= "."
        /\ ~Contains(Chosen, <<".", ".">>)

----------------------------------------------------------------------------
(* the library is consistent: every episode whose has-file flag is set is
   listed by a file record of the series, and every file record lists episodes
   of the series that have the flag, and has no season of its own that is not
   the season of those episodes *)
ConsistentLibrary ==
    /\ \A e \in DOMAIN episodes :
           episodes[e].has_file =>
               \E k \in DOMAIN episode_files :
                   episodes[e].id \in Range(episode_files[k].episode_ids)
    /\ \A k \in DOMAIN episode_files :
           /\ episode_files[k].episode_ids /= <<>>
           /\ \A id \in Range(episode_files[k].episode_ids) :
                  \E e \in DOMAIN episodes :
                      /\ episodes[e].id = id
                      /\ episodes[e].has_file
                      /\ episode_files[k].season_number \in {None, Some(episodes[e].season_number)}

(* the files of a pack call hold a file of the episode *)
PackHoldsEpisode(c, ep) == \E k \in DOMAIN c.files : ep.id \in Range(c.files[k].episode_ids)

(* C30 as stated: a season pack made for a season classified complete holds
   the file of every episode of that season whose has-file flag is set. *)
C30_AsStated ==
    (SeasonPacksDone /\ ConsistentLibrary) =>
        \A i \in CallsOfKind("season_pack") :
            Unwrap(calls[i].for_season) \in complete_seasons =>
                \A e \in EpisodesOfSeason(Unwrap(calls[i].for_season)) :
                    episodes[e].has_file => PackHoldsEpisode(calls[i], episodes[e])

TypeOK == pc \in {"list_episodes", "list_episode_files", "classify", "season_packs",
                  "integrale", "per_episode", "done", "propose", "proposed",
                  "validate", "validated", "normalize", "normalized",
                  "synthesize", "export", "torrent", "upload", "emitted"}

====
